---- MODULE Spec2Model ----
(***************************************************************************)
(* A model of jepl: the evaluator (Eval, evalBinaryExpr, evalFC,           *)
(* evalMetric, EvalSQL), the group flattener (FlatStatByGroup, Clone,      *)
(* CloneExpr), statement validation and the printer (String).              *)
(*                                                                         *)
(* Run-time values (Go interface{}) are tagged records.  A float64 is a    *)
(* sign, an odd mantissa below 2^53 and a binary exponent, or +Inf, -Inf,  *)
(* NaN; its arithmetic rounds as IEEE 754 does.  Mutable accumulator       *)
(* state of Call nodes lives in a heap indexed by the Call's identity      *)
(* (field id), so that two trees can share a Call node or not.             *)
(***************************************************************************)
EXTENDS Integers, Sequences, FiniteSets, TLC

VARIABLES
    pc,       \* position of the running operation
    sql,      \* the statement handed to the operation (AST as the parser built it)
    docs,     \* the batch of JSON documents
    heap,     \* accumulator state of every allocated Call node, by identity
    stmts,    \* driver: partition key -> statement (selectStmts)
    todo,     \* driver: keys of stmts not yet evaluated
    cur,      \* driver: the key being evaluated and the index of the next document
    pm,       \* driver: partition key -> emitted points
    hist,     \* history of what the operations did (observations for the properties)
    input,    \* input of a pure operation (expression, field list, text)
    output    \* result of a pure operation

vars == <<pc, sql, docs, heap, stmts, todo, cur, pm, hist, input, output>>

-----------------------------------------------------------------------------
(* Bounds of the model.                                                    *)

\* Largest number of documents in a batch.
MaxDocs == 3
\* Largest number of fields of a field list handed to validation.
MaxFields == 2

-----------------------------------------------------------------------------
(* Run-time values.                                                        *)

Nil == [t |-> "nil"]
BoolV(b) == [t |-> "bool", b |-> b]
StrV(s) == [t |-> "string", s |-> s]
ListV(l) == [t |-> "list", l |-> l]
RegexV(m) == [t |-> "regex", matches |-> m]
\* A run-time panic of the Go program (it unwinds the whole call).
Panic(msg) == [t |-> "panic", msg |-> msg]

Abs(x) == IF x < 0 THEN -x ELSE x
Sign(x) == IF x < 0 THEN -1 ELSE IF x > 0 THEN 1 ELSE 0
Max(a, b) == IF a > b THEN a ELSE b
Min(a, b) == IF a < b THEN a ELSE b

RECURSIVE Pow2(_)
Pow2(k) == IF k = 0 THEN 1 ELSE 2 * Pow2(k - 1)

RECURSIVE Pow10(_)
Pow10(k) == IF k = 0 THEN 1 ELSE 10 * Pow10(k - 1)

-----------------------------------------------------------------------------
(* Natural numbers of any size, for the 53-bit mantissas of float64 and    *)
(* the exact intermediate results: a number is the sequence of its limbs   *)
(* in base 2^15, lowest limb first, without a zero limb at the top; <<>>   *)
(* is 0.                                                                   *)

RECURSIVE BNorm(_)
BNorm(a) ==
    IF a # <<>> /\ a[Len(a)] = 0 THEN BNorm(SubSeq(a, 1, Len(a) - 1)) ELSE a

RECURSIVE BFromInt(_)
BFromInt(n) == IF n = 0 THEN <<>> ELSE <<n % 32768>> \o BFromInt(n \div 32768)

RECURSIVE BToIntFrom(_, _)
BToIntFrom(a, i) == IF i > Len(a) THEN 0 ELSE a[i] + 32768 * BToIntFrom(a, i + 1)
BToInt(a) == BToIntFrom(a, 1)

Limb(a, i) == IF i <= Len(a) THEN a[i] ELSE 0

RECURSIVE BAddFrom(_, _, _, _)
BAddFrom(a, b, i, carry) ==
    IF i > Len(a) /\ i > Len(b) THEN (IF carry = 0 THEN <<>> ELSE <<carry>>)
    ELSE <<(Limb(a, i) + Limb(b, i) + carry) % 32768>>
         \o BAddFrom(a, b, i + 1, (Limb(a, i) + Limb(b, i) + carry) \div 32768)
BAdd(a, b) == BAddFrom(a, b, 1, 0)

\* a - b for a >= b.
RECURSIVE BSubFrom(_, _, _, _)
BSubFrom(a, b, i, borrow) ==
    IF i > Len(a) THEN <<>>
    ELSE IF a[i] - Limb(b, i) - borrow < 0
    THEN <<a[i] - Limb(b, i) - borrow + 32768>> \o BSubFrom(a, b, i + 1, 1)
    ELSE <<a[i] - Limb(b, i) - borrow>> \o BSubFrom(a, b, i + 1, 0)
BSub(a, b) == BNorm(BSubFrom(a, b, 1, 0))

\* -1, 0, 1 as a < b, a = b, a > b.
RECURSIVE BCmpFrom(_, _, _)
BCmpFrom(a, b, i) ==
    IF i = 0 THEN 0
    ELSE IF a[i] < b[i] THEN -1
    ELSE IF a[i] > b[i] THEN 1
    ELSE BCmpFrom(a, b, i - 1)
BCmp(a, b) ==
    IF Len(a) < Len(b) THEN -1
    ELSE IF Len(a) > Len(b) THEN 1
    ELSE BCmpFrom(a, b, Len(a))

\* a * k for 0 <= k <= 32768.
RECURSIVE BMulSmallFrom(_, _, _, _)
BMulSmallFrom(a, k, i, carry) ==
    IF i > Len(a) THEN (IF carry = 0 THEN <<>> ELSE <<carry>>)
    ELSE <<(a[i] * k + carry) % 32768>>
         \o BMulSmallFrom(a, k, i + 1, (a[i] * k + carry) \div 32768)
BMulSmall(a, k) == IF k = 0 THEN <<>> ELSE BMulSmallFrom(a, k, 1, 0)

\* a * 32768^n.
BShiftLimbs(a, n) == IF a = <<>> THEN <<>> ELSE [i \in 1..n |-> 0] \o a

RECURSIVE BMulFrom(_, _, _)
BMulFrom(a, b, i) ==
    IF i > Len(b) THEN <<>>
    ELSE BAdd(BShiftLimbs(BMulSmall(a, b[i]), i - 1), BMulFrom(a, b, i + 1))
BMul(a, b) == BMulFrom(a, b, 1)

\* a * 2^s.
BShl(a, s) == BShiftLimbs(BMulSmall(a, Pow2(s % 15)), s \div 15)

\* a \div k and a % k for 1 <= k <= 32768, from the top limb i down:
\* [q |-> quotient, r |-> remainder as an integer].
RECURSIVE BDivSmallFrom(_, _, _, _)
BDivSmallLimb(a, k, i, rem, lower) ==
    [q |-> lower.q \o <<(rem * 32768 + a[i]) \div k>>, r |-> lower.r]
BDivSmallFrom(a, k, i, rem) ==
    IF i = 0 THEN [q |-> <<>>, r |-> rem]
    ELSE BDivSmallLimb(a, k, i, rem,
                       BDivSmallFrom(a, k, i - 1, (rem * 32768 + a[i]) % k))
BDivSmallResult(d) == [q |-> BNorm(d.q), r |-> BFromInt(d.r)]
BDivSmall(a, k) == BDivSmallResult(BDivSmallFrom(a, k, Len(a), 0))

\* floor(a / 2^s) and a mod 2^s.
BDropLimbs(a, n) == IF n >= Len(a) THEN <<>> ELSE SubSeq(a, n + 1, Len(a))
BShr(a, s) == BDivSmall(BDropLimbs(a, s \div 15), Pow2(s % 15)).q
BLow(a, s) ==
    BNorm(SubSeq(a, 1, Min(Len(a), s \div 15))
          \o <<Limb(a, s \div 15 + 1) % Pow2(s % 15)>>)

\* The number of bits of a: 0 for 0, else 1 + floor(log2 a).
RECURSIVE IntBitLen(_)
IntBitLen(n) == IF n = 0 THEN 0 ELSE 1 + IntBitLen(n \div 2)
BBitLen(a) == IF a = <<>> THEN 0 ELSE 15 * (Len(a) - 1) + IntBitLen(a[Len(a)])

\* The number of zero bits below the lowest one bit of a # 0.
RECURSIVE IntTrailingZeros(_)
IntTrailingZeros(n) == IF n % 2 = 1 THEN 0 ELSE 1 + IntTrailingZeros(n \div 2)
RECURSIVE BTrailingZeros(_, _)
BTrailingZeros(a, i) ==
    IF a[i] = 0 THEN 15 + BTrailingZeros(a, i + 1) ELSE IntTrailingZeros(a[i])

BIsOdd(a) == a # <<>> /\ a[1] % 2 = 1

\* a \div d and a % d for any d > 0: long division in base 2^15 from the top
\* limb i down with the remainder rem so far; a quotient limb is the largest
\* q in lo..hi with q * d <= part.
RECURSIVE BQuotLimb(_, _, _, _)
BQuotLimb(part, d, lo, hi) ==
    IF lo = hi THEN lo
    ELSE IF BCmp(BMulSmall(d, (lo + hi + 1) \div 2), part) <= 0
    THEN BQuotLimb(part, d, (lo + hi + 1) \div 2, hi)
    ELSE BQuotLimb(part, d, lo, (lo + hi + 1) \div 2 - 1)
RECURSIVE BDivLimbs(_, _, _, _)
BDivLimbsLower(q, lower) == [q |-> lower.q \o <<q>>, r |-> lower.r]
BDivLimbsStep(a, d, i, part, q) ==
    BDivLimbsLower(q, BDivLimbs(a, d, i - 1, BSub(part, BMulSmall(d, q))))
BDivLimbsAt(a, d, i, part) == BDivLimbsStep(a, d, i, part, BQuotLimb(part, d, 0, 32767))
BDivLimbs(a, d, i, rem) ==
    IF i = 0 THEN [q |-> <<>>, r |-> rem]
    ELSE BDivLimbsAt(a, d, i, BNorm(<<a[i]>> \o rem))
BDivLimbsResult(qr) == [q |-> BNorm(qr.q), r |-> qr.r]
BDivMod(a, d) ==
    IF Len(d) = 1 THEN BDivSmall(a, d[1])
    ELSE BDivLimbsResult(BDivLimbs(a, d, Len(a), <<>>))

-----------------------------------------------------------------------------
(* float64.  A finite value is (-1)^s * m * 2^e with m = 0 (and e = 0) or  *)
(* m odd, m < 2^53, e >= -1074 and m * 2^e < 2^1024: every float64 has     *)
(* exactly one such form.  The zeros are signed.  Every operation computes *)
(* the exact result and rounds it to the nearest float64, ties to even, as *)
(* IEEE 754 does.                                                          *)

Fin(s, m, e) == [t |-> "float", c |-> "fin", s |-> s, m |-> m, e |-> e]
FZero(s) == Fin(s, <<>>, 0)
FInf(s) == [t |-> "float", c |-> "inf", s |-> s, m |-> <<>>, e |-> 0]
PosInf == FInf(0)
NegInf == FInf(1)
NaN == [t |-> "float", c |-> "nan", s |-> 0, m |-> <<>>, e |-> 0]
IsNaN(x) == x.c = "nan"
IsInf(x) == x.c = "inf"
IsFinite(x) == x.c = "fin"
IsFZero(x) == x.c = "fin" /\ x.m = <<>>
Xor(s1, s2) == IF s1 = s2 THEN 0 ELSE 1

\* The float64 (-1)^s * M * 2^E for M and E in range: M made odd.
FCanonShift(s, M, E, z) == Fin(s, BShr(M, z), E + z)
FCanon(s, M, E) ==
    IF M = <<>> THEN FZero(s)
    ELSE IF BBitLen(M) + E > 1024 THEN FInf(s)
    ELSE FCanonShift(s, M, E, BTrailingZeros(M, 1))

\* M with its lowest drop bits rounded away, ties to even; q is the
\* quotient, low the bits dropped and half 2^(drop - 1).  An M below a
\* quarter of 2^drop rounds to 0.
FRoundQuotient(q, low, half) ==
    IF BCmp(low, half) > 0 \/ (BCmp(low, half) = 0 /\ BIsOdd(q))
    THEN BAdd(q, <<1>>) ELSE q
FRoundBits(M, drop) ==
    IF drop > BBitLen(M) + 1 THEN <<>>
    ELSE FRoundQuotient(BShr(M, drop), BLow(M, drop), BShl(<<1>>, drop - 1))

\* The exact value (-1)^s * M * 2^E, M > 0, rounded to float64: the bits
\* beyond 53 and the bits below 2^-1074 are rounded away.
FRoundDrop(s, M, E, drop) ==
    IF drop <= 0 THEN FCanon(s, M, E)
    ELSE FCanon(s, FRoundBits(M, drop), E + drop)
FRound(s, M, E) ==
    IF M = <<>> THEN FZero(s)
    ELSE FRoundDrop(s, M, E, Max(BBitLen(M) - 53, (-1074) - E))

\* The exact value (-1)^s * (N / D) * 2^E, N > 0, D > 0, rounded to float64:
\* N is scaled by 2^k to give a quotient of at least 56 bits, and a
\* remainder is kept as one more bit below it.
FRoundQuot(s, qr, E) ==
    IF qr.r = <<>> THEN FRound(s, qr.q, E)
    ELSE FRound(s, BAdd(BMulSmall(qr.q, 2), <<1>>), E - 1)
FRoundScaled(s, N, D, E, k) == FRoundQuot(s, BDivMod(BShl(N, k), D), E - k)
FRoundRatio(s, N, D, E) ==
    FRoundScaled(s, N, D, E, Max(0, 56 + BBitLen(D) - BBitLen(N)))

\* The float64 nearest to n/d; d = 0 gives +Inf, -Inf or NaN by the sign of n.
Rat(n, d) ==
    IF d = 0 THEN (IF n > 0 THEN PosInf ELSE IF n < 0 THEN NegInf ELSE NaN)
    ELSE IF n = 0 THEN FZero(0)
    ELSE IF d = 1 THEN FRound(IF n < 0 THEN 1 ELSE 0, BFromInt(Abs(n)), 0)
    ELSE FRoundRatio(IF (n < 0) = (d < 0) THEN 0 ELSE 1,
                     BFromInt(Abs(n)), BFromInt(Abs(d)), 0)

FloatV(i) == Rat(i, 1)

FNeg(x) == IF IsNaN(x) THEN x ELSE [x EXCEPT !.s = 1 - @]

\* The position above the highest bit of a finite x # 0: 2^(FTop(x) - 1) <= |x|.
FTop(x) == BBitLen(x.m) + x.e

\* x + y for finite x, y # 0, with both mantissas scaled to the exponent e.
FAddAligned(x, y, A, B, e) ==
    IF x.s = y.s THEN FRound(x.s, BAdd(A, B), e)
    ELSE IF BCmp(A, B) = 0 THEN FZero(0)
    ELSE IF BCmp(A, B) > 0 THEN FRound(x.s, BSub(A, B), e)
    ELSE FRound(y.s, BSub(B, A), e)

\* x + y; an operand more than 60 binary places below the other does not
\* change it.
FAdd(x, y) ==
    IF IsNaN(x) \/ IsNaN(y) THEN NaN
    ELSE IF IsInf(x) /\ IsInf(y) THEN (IF x.s = y.s THEN x ELSE NaN)
    ELSE IF IsInf(x) THEN x
    ELSE IF IsInf(y) THEN y
    ELSE IF IsFZero(x) /\ IsFZero(y) THEN FZero(IF x.s = y.s THEN x.s ELSE 0)
    ELSE IF IsFZero(x) THEN y
    ELSE IF IsFZero(y) THEN x
    ELSE IF FTop(x) - FTop(y) > 60 THEN x
    ELSE IF FTop(y) - FTop(x) > 60 THEN y
    ELSE FAddAligned(x, y, BShl(x.m, x.e - Min(x.e, y.e)),
                     BShl(y.m, y.e - Min(x.e, y.e)), Min(x.e, y.e))

\* x - y
FSub(x, y) == FAdd(x, FNeg(y))

\* x * y
FMul(x, y) ==
    IF IsNaN(x) \/ IsNaN(y) THEN NaN
    ELSE IF (IsInf(x) /\ IsFZero(y)) \/ (IsFZero(x) /\ IsInf(y)) THEN NaN
    ELSE IF IsInf(x) \/ IsInf(y) THEN FInf(Xor(x.s, y.s))
    ELSE IF IsFZero(x) \/ IsFZero(y) THEN FZero(Xor(x.s, y.s))
    ELSE FRound(Xor(x.s, y.s), BMul(x.m, y.m), x.e + y.e)

\* x / y
FDiv(x, y) ==
    IF IsNaN(x) \/ IsNaN(y) THEN NaN
    ELSE IF IsInf(x) /\ IsInf(y) THEN NaN
    ELSE IF IsInf(x) THEN FInf(Xor(x.s, y.s))
    ELSE IF IsInf(y) THEN FZero(Xor(x.s, y.s))
    ELSE IF IsFZero(y) THEN (IF IsFZero(x) THEN NaN ELSE FInf(Xor(x.s, y.s)))
    ELSE IF IsFZero(x) THEN FZero(Xor(x.s, y.s))
    ELSE FRoundRatio(Xor(x.s, y.s), x.m, y.m, x.e - y.e)

\* |x| < |y| for x, y that are no NaN.
FMagLtAligned(A, B) == BCmp(A, B) < 0
FMagLt(x, y) ==
    IF IsInf(x) THEN FALSE
    ELSE IF IsInf(y) THEN TRUE
    ELSE IF IsFZero(y) THEN FALSE
    ELSE IF IsFZero(x) THEN TRUE
    ELSE IF FTop(x) # FTop(y) THEN FTop(x) < FTop(y)
    ELSE FMagLtAligned(BShl(x.m, x.e - Min(x.e, y.e)),
                       BShl(y.m, y.e - Min(x.e, y.e)))

\* float64 comparisons: every comparison with NaN is false, -0 equals +0.
FEq(x, y) == ~IsNaN(x) /\ ~IsNaN(y) /\ ((IsFZero(x) /\ IsFZero(y)) \/ x = y)
FLt(x, y) ==
    /\ ~IsNaN(x) /\ ~IsNaN(y)
    /\ ~(IsFZero(x) /\ IsFZero(y))
    /\ IF x.s # y.s THEN x.s = 1
       ELSE IF x.s = 0 THEN FMagLt(x, y) ELSE FMagLt(y, x)
FLe(x, y) == FLt(x, y) \/ FEq(x, y)

\* A conversion that loses the integer: every int64 becomes 0.0.
ToFloatZero(v) == Rat(0, 1)

-----------------------------------------------------------------------------
(* int64.  A value is a sign and a magnitude: at most 2^63 - 1 for a       *)
(* positive value, at most 2^63 for a negative one; zero has no sign.      *)
(* Arithmetic wraps around modulo 2^64, as Go's does.                      *)

Int64(neg, mag) == [t |-> "int", neg |-> neg /\ mag # <<>>, mag |-> mag]
IntV(i) == Int64(i < 0, BFromInt(Abs(i)))

\* The int64 whose two's complement bit pattern is u, 0 <= u < 2^64.
IntOfBits(u) ==
    IF BBitLen(u) = 64 THEN Int64(TRUE, BSub(BShl(<<1>>, 64), u))
    ELSE Int64(FALSE, u)

\* The integer (-1)^neg * mag of any size, reduced modulo 2^64 to an int64;
\* low is mag modulo 2^64.
IntWrapLow(neg, low) ==
    IF neg /\ low # <<>> THEN IntOfBits(BSub(BShl(<<1>>, 64), low))
    ELSE IntOfBits(low)
IntWrap(neg, mag) == IntWrapLow(neg, BLow(mag, 64))

\* (-1)^xn * xm + (-1)^yn * ym as an int64.
IntSum(xn, xm, yn, ym) ==
    IF xn = yn THEN IntWrap(xn, BAdd(xm, ym))
    ELSE IF BCmp(xm, ym) >= 0 THEN IntWrap(xn, BSub(xm, ym))
    ELSE IntWrap(yn, BSub(ym, xm))

\* lhs + rhsi, lhs - rhsi, lhs * rhsi on int64.
IntAdd(x, y) == IntSum(x.neg, x.mag, y.neg, y.mag)
IntSub(x, y) == IntSum(x.neg, x.mag, ~y.neg, y.mag)
IntMul(x, y) == IntWrap(x.neg # y.neg, BMul(x.mag, y.mag))

\* Go integer division truncates toward zero (b # 0); the most negative
\* int64 divided by -1 is itself.
IntQuot(a, b) == IntWrap(a.neg # b.neg, BDivMod(a.mag, b.mag).q)

\* The largest and the smallest int64.
MaxInt64 == Int64(FALSE, BSub(BShl(<<1>>, 63), <<1>>))
MinInt64 == Int64(TRUE, BShl(<<1>>, 63))

\* lhs < rhsi, lhs <= rhsi on int64.
IntLt(x, y) ==
    IF x.neg # y.neg THEN x.neg
    ELSE IF x.neg THEN BCmp(y.mag, x.mag) < 0
    ELSE BCmp(x.mag, y.mag) < 0
IntLe(x, y) == IntLt(x, y) \/ x = y

\* float64(i) of an int64 i: the nearest float64.
ToFloat(v) ==
    IF v.mag = <<>> THEN FZero(0)
    ELSE FRound(IF v.neg THEN 1 ELSE 0, v.mag, 0)

-----------------------------------------------------------------------------
(* JSON documents, as the accessor jsonparser.Get sees them.               *)

\* A JSON number as its text: the decimal numeral digits / 10^frac written
\* with frac fractional digits (frac = 0: no fractional part).
JNum(digits, frac) == [j |-> "Number", digits |-> digits, frac |-> frac]
JStr(s) == [j |-> "String", str |-> s]
JBool(b) == [j |-> "Boolean", bool |-> b]
JNull == [j |-> "Null"]
JObj(m) == [j |-> "Object", members |-> m]
JArr == [j |-> "Array"]
JNotExist == [j |-> "NotExist"]
\* The nil *string that evalMetric hands to Eval.
NilJs == [j |-> "nilptr"]

\* jsonparser.Get(doc, segments...): walk the object by keys.
RECURSIVE JGet(_, _)
JGet(v, segs) ==
    IF segs = <<>> THEN v
    ELSE IF v.j = "Object" /\ Head(segs) \in DOMAIN v.members
         THEN JGet(v.members[Head(segs)], Tail(segs))
         ELSE JNotExist

-----------------------------------------------------------------------------
(* AST nodes.  A Call carries its identity id; its accumulator             *)
(* (result, Count, First) is heap[id].                                     *)

NilExpr == [k |-> "nil"]
VarRef(val, segs) == [k |-> "VarRef", Val |-> val, Segments |-> segs]
IntegerLiteral(i) == [k |-> "IntegerLiteral", Val |-> i]
NumberLiteral(x) == [k |-> "NumberLiteral", Val |-> x]
StringLiteral(s) == [k |-> "StringLiteral", Val |-> s]
BooleanLiteral(b) == [k |-> "BooleanLiteral", Val |-> b]
RegexLiteral(m) == [k |-> "RegexLiteral", Val |-> m]
ListLiteral(vals) == [k |-> "ListLiteral", Vals |-> vals]
ParenExpr(e) == [k |-> "ParenExpr", Expr |-> e]
BinaryExpr(op, l, r) == [k |-> "BinaryExpr", Op |-> op, LHS |-> l, RHS |-> r]
Call(name, args, id) == [k |-> "Call", Name |-> name, Args |-> args, id |-> id]
Field(e, alias) == [Expr |-> e, Alias |-> alias]

\* The accumulator of a Call the parser emits, and the one Eval resets to.
InitAcc == [result |-> FloatV(0), Count |-> 0, First |-> TRUE]
\* The accumulator of a Go composite literal &Call{Name: .., Args: ..}.
ZeroAcc == [result |-> FloatV(0), Count |-> 0, First |-> FALSE]

-----------------------------------------------------------------------------
(* Eval: the value of an expression against a document.  Eval on a Call    *)
(* writes the heap, so every evaluation returns the value and the heap.    *)

Res(v, h) == [v |-> v, h |-> h]
IsPanic(v) == v.t = "panic"

\* reflect.DeepEqual on two run-time values.
DeepEqual(x, y) ==
    /\ x.t = y.t
    /\ IF x.t = "float" THEN FEq(x, y) ELSE x = y

\* reflect.TypeOf(nil).Kind() dereferences a nil Type.
inList(val, array) ==
    IF array.t = "nil" THEN Panic("nil pointer dereference")
    ELSE IF array.t = "list"
         THEN BoolV(\E i \in 1..Len(array.l) : DeepEqual(val, array.l[i]))
         ELSE BoolV(FALSE)

notInList(val, array) ==
    LET r == inList(val, array) IN IF IsPanic(r) THEN r ELSE BoolV(~r.b)

\* The comparison `rhs == 0` of the interface value rhs with the untyped
\* constant 0: the constant becomes int(0), whose dynamic type is neither
\* int64 nor float64, so the comparison is false for every operand.
RhsIsZeroConst(rhs) == rhs.t = "goint" /\ rhs.i = 0

\* evalBoolOp with the bodies of AND and OR exchanged.
evalBoolOpSwapped(op, lhs, rhs) ==
    LET ok == rhs.t = "bool" IN
    CASE op = "AND" -> BoolV(ok /\ (lhs.b \/ rhs.b))
      [] op = "OR"  -> BoolV(ok /\ (lhs.b /\ rhs.b))
      [] op = "EQ"  -> BoolV(ok /\ (lhs.b = rhs.b))
      [] op = "NEQ" -> BoolV(ok /\ (lhs.b # rhs.b))
      [] OTHER -> Nil

evalBoolOp(op, lhs, rhs) ==
    LET ok == rhs.t = "bool" IN
    CASE op = "AND" -> BoolV(ok /\ (lhs.b /\ rhs.b))
      [] op = "OR"  -> BoolV(ok /\ (lhs.b \/ rhs.b))
      [] op = "EQ"  -> BoolV(ok /\ (lhs.b = rhs.b))
      [] op = "NEQ" -> BoolV(ok /\ (lhs.b # rhs.b))
      [] OTHER -> Nil

\* lhs float64; rhs tried as float64, then as int64 converted.
evalFloatOp(op, lhs, rhs) ==
    LET ok == rhs.t \in {"float", "int"}
        rhsf == IF rhs.t = "float" THEN rhs
                ELSE IF rhs.t = "int" THEN ToFloat(rhs) ELSE FloatV(0)
    IN
    CASE op = "IN"  -> inList(lhs, rhs)
      [] op = "NI"  -> notInList(lhs, rhs)
      [] op = "EQ"  -> BoolV(ok /\ FEq(lhs, rhsf))
      [] op = "NEQ" -> BoolV(ok /\ ~FEq(lhs, rhsf))
      [] op = "LT"  -> BoolV(ok /\ FLt(lhs, rhsf))
      [] op = "LTE" -> BoolV(ok /\ FLe(lhs, rhsf))
      [] op = "GT"  -> BoolV(ok /\ FLt(rhsf, lhs))
      [] op = "GTE" -> BoolV(ok /\ FLe(rhsf, lhs))
      [] op = "ADD" -> IF ~ok THEN Nil ELSE FAdd(lhs, rhsf)
      [] op = "SUB" -> IF ~ok THEN Nil ELSE FSub(lhs, rhsf)
      [] op = "MUL" -> IF ~ok THEN Nil ELSE FMul(lhs, rhsf)
      [] op = "DIV" -> IF ~ok THEN Nil
                       ELSE IF RhsIsZeroConst(rhs) THEN FloatV(0)
                       ELSE FDiv(lhs, rhsf)
      [] OTHER -> Nil

\* lhs int64, rhs float64: both as float64; here rhs is the float64 local.
evalIntFloatOp(op, lhsi, rhs) ==
    LET lhs == ToFloat(lhsi) IN
    CASE op = "EQ"  -> BoolV(FEq(lhs, rhs))
      [] op = "NEQ" -> BoolV(~FEq(lhs, rhs))
      [] op = "LT"  -> BoolV(FLt(lhs, rhs))
      [] op = "LTE" -> BoolV(FLe(lhs, rhs))
      [] op = "GT"  -> BoolV(FLt(rhs, lhs))
      [] op = "GTE" -> BoolV(FLe(rhs, lhs))
      [] op = "ADD" -> FAdd(lhs, rhs)
      [] op = "SUB" -> FSub(lhs, rhs)
      [] op = "MUL" -> FMul(lhs, rhs)
      [] op = "DIV" -> IF FEq(rhs, FloatV(0)) THEN FloatV(0) ELSE FDiv(lhs, rhs)
      [] OTHER -> Nil

\* lhs int64, rhs not float64.
evalIntOp(op, lhs, rhs) ==
    LET ok == rhs.t = "int"
        rhsi == IF ok THEN rhs ELSE IntV(0)
    IN
    CASE op = "IN"  -> inList(lhs, rhs)
      [] op = "NI"  -> notInList(lhs, rhs)
      [] op = "EQ"  -> BoolV(ok /\ lhs = rhsi)
      [] op = "NEQ" -> BoolV(ok /\ lhs # rhsi)
      [] op = "LT"  -> BoolV(ok /\ IntLt(lhs, rhsi))
      [] op = "LTE" -> BoolV(ok /\ IntLe(lhs, rhsi))
      [] op = "GT"  -> BoolV(ok /\ IntLt(rhsi, lhs))
      [] op = "GTE" -> BoolV(ok /\ IntLe(rhsi, lhs))
      [] op = "ADD" -> IF ~ok THEN Nil ELSE IntAdd(lhs, rhsi)
      [] op = "SUB" -> IF ~ok THEN Nil ELSE IntSub(lhs, rhsi)
      [] op = "MUL" -> IF ~ok THEN Nil ELSE IntMul(lhs, rhsi)
      [] op = "DIV" -> IF ~ok THEN Nil
                       ELSE IF RhsIsZeroConst(rhs) THEN FloatV(0)
                       ELSE IF rhsi = IntV(0) THEN Panic("integer divide by zero")
                       ELSE IntQuot(lhs, rhsi)
      [] OTHER -> Nil

evalStringOp(op, lhs, rhs) ==
    CASE op = "IN"  -> inList(lhs, rhs)
      [] op = "NI"  -> notInList(lhs, rhs)
      [] op = "EQ"  -> BoolV(rhs.t = "string" /\ lhs.s = rhs.s)
      [] op = "NEQ" -> BoolV(rhs.t = "string" /\ lhs.s # rhs.s)
      [] op = "EQREGEX"  -> BoolV(rhs.t = "regex" /\ lhs.s \in rhs.matches)
      [] op = "NEQREGEX" -> BoolV(rhs.t = "regex" /\ lhs.s \notin rhs.matches)
      [] OTHER -> Nil

\* The dispatch of evalBinaryExpr on the left value's run-time type.
evalOp(op, lhs, rhs) ==
    CASE lhs.t = "bool"   -> evalBoolOp(op, lhs, rhs)
      [] lhs.t = "float"  -> evalFloatOp(op, lhs, rhs)
      [] lhs.t = "int"    -> IF rhs.t = "float" THEN evalIntFloatOp(op, lhs, rhs)
                             ELSE evalIntOp(op, lhs, rhs)
      [] lhs.t = "string" -> evalStringOp(op, lhs, rhs)
      [] OTHER -> Nil

\* Eval on a Call: the finalized value.
CallValue(name, acc) ==
    IF name = "count" THEN FloatV(acc.Count)
    ELSE IF name = "avg" /\ acc.Count > 0 THEN FDiv(acc.result, FloatV(acc.Count))
    ELSE acc.result

\* A reset of result and Count that leaves the First flag as it is.
CallResetKeepFirst(acc) == [result |-> FloatV(0), Count |-> 0, First |-> acc.First]

\* Eval on a Call: the accumulator it leaves.
CallReset(acc) == [result |-> FloatV(0), Count |-> 0, First |-> TRUE]

\* jsonparser.ParseFloat on the text of a JSON number: always a float64.
ParseFloat(val) == Rat(val.digits, Pow10(val.frac))

\* Eval on a VarRef: the typed leaf the path reaches.
evalVarRef(expr, js) ==
    IF js = NilJs THEN Panic("nil pointer dereference")
    ELSE LET r == JGet(js, expr.Segments) IN
         CASE r.j = "Number"  -> ParseFloat(r)
           [] r.j = "String"  -> StrV(r.str)
           [] r.j = "Boolean" -> BoolV(r.bool)
           [] OTHER -> Nil

RECURSIVE Eval(_, _, _)

\* evalBinaryExpr once lhs and rhs are evaluated: the operator applied.
evalOperands(op, l, r) ==
    IF IsPanic(r.v) THEN r ELSE Res(evalOp(op, l.v, r.v), r.h)

\* evalBinaryExpr once lhs is evaluated: rhs := Eval(expr.RHS, js).
evalRHS(expr, js, l) ==
    IF IsPanic(l.v) THEN l
    ELSE evalOperands(expr.Op, l, Eval(expr.RHS, js, l.h))

evalBinaryExpr(expr, js, h) == evalRHS(expr, js, Eval(expr.LHS, js, h))

Eval(expr, js, h) ==
    CASE expr.k = "nil" -> Res(Nil, h)
      [] expr.k = "Call" ->
            Res(CallValue(expr.Name, h[expr.id]),
                [h EXCEPT ![expr.id] = CallReset(h[expr.id])])
      [] expr.k = "BinaryExpr" -> evalBinaryExpr(expr, js, h)
      [] expr.k = "BooleanLiteral" -> Res(BoolV(expr.Val), h)
      [] expr.k = "ListLiteral" -> Res(ListV(expr.Vals), h)
      [] expr.k = "IntegerLiteral" -> Res(expr.Val, h)
      [] expr.k = "NumberLiteral" -> Res(expr.Val, h)
      [] expr.k = "ParenExpr" -> Eval(expr.Expr, js, h)
      [] expr.k = "RegexLiteral" -> Res(RegexV(expr.Val), h)
      [] expr.k = "StringLiteral" -> Res(StrV(expr.Val), h)
      [] expr.k = "VarRef" -> Res(evalVarRef(expr, js), h)
      [] OTHER -> Res(Nil, h)

-----------------------------------------------------------------------------
(* Accumulation (evalFC) and finalization (evalMetric).                    *)

\* The float64 an aggregate argument contributes: thisret / res.
ArgAsFloat(v) ==
    IF v.t = "int" THEN ToFloat(v) ELSE IF v.t = "float" THEN v ELSE FloatV(0)

\* CallUpdate without the First flag: max and min start from result 0.
CallUpdateNoFirst(name, acc, v) ==
    CASE name \in {"sum", "avg"} ->
            IF v.t \in {"int", "float"}
            THEN [acc EXCEPT !.result = FAdd(acc.result, ArgAsFloat(v))]
            ELSE acc
      [] name = "max" ->
            IF FLt(acc.result, ArgAsFloat(v))
            THEN [acc EXCEPT !.result = ArgAsFloat(v)] ELSE acc
      [] name = "min" ->
            IF FLt(ArgAsFloat(v), acc.result)
            THEN [acc EXCEPT !.result = ArgAsFloat(v)] ELSE acc
      [] OTHER -> acc

\* evalFC on a Call, after Count++: the update of result and First by the
\* value v of the argument, for the names sum, avg, max and min.
CallUpdate(name, acc, v) ==
    CASE name \in {"sum", "avg"} ->
            IF v.t \in {"int", "float"}
            THEN [acc EXCEPT !.result = FAdd(acc.result, ArgAsFloat(v))]
            ELSE acc
      [] name = "max" ->
            IF acc.First
            THEN [acc EXCEPT !.result = ArgAsFloat(v), !.First = FALSE]
            ELSE IF FLt(acc.result, ArgAsFloat(v))
                 THEN [acc EXCEPT !.result = ArgAsFloat(v)] ELSE acc
      [] name = "min" ->
            IF acc.First
            THEN [acc EXCEPT !.result = ArgAsFloat(v), !.First = FALSE]
            ELSE IF FLt(ArgAsFloat(v), acc.result)
                 THEN [acc EXCEPT !.result = ArgAsFloat(v)] ELSE acc
      [] OTHER -> acc

\* evalFC on a Call, once its argument is evaluated to r.
evalFCArg(expr, r) ==
    IF IsPanic(r.v) THEN r
    ELSE Res(Nil, [r.h EXCEPT ![expr.id] = CallUpdate(expr.Name, r.h[expr.id], r.v)])

\* evalFC on a Call, after Count++ (heap h1).
evalFCCall(expr, js, h1) ==
    IF expr.Name \notin {"sum", "avg", "max", "min"} THEN Res(Nil, h1)
    ELSE IF Len(expr.Args) = 0 THEN Res(Panic("index out of range"), h1)
    ELSE evalFCArg(expr, Eval(expr.Args[1], js, h1))

\* evalFC: Res(Nil, heap') or Res(panic, _).  Only Call and BinaryExpr
\* nodes are traversed; a Call of any other name only counts.
RECURSIVE evalFC(_, _, _)
evalFCRHS(expr, js, l) == IF IsPanic(l.v) THEN l ELSE evalFC(expr.RHS, js, l.h)

evalFC(expr, js, h) ==
    CASE expr.k = "Call" ->
            evalFCCall(expr, js, [h EXCEPT ![expr.id].Count = @ + 1])
      [] expr.k = "BinaryExpr" -> evalFCRHS(expr, js, evalFC(expr.LHS, js, h))
      [] OTHER -> Res(Nil, h)

\* evalFunctionCalls: evalFC on every field, in declaration order.
RECURSIVE evalFields(_, _, _, _)
evalFieldsNext(fields, i, js, r) ==
    IF IsPanic(r.v) THEN r ELSE evalFields(fields, i + 1, js, r.h)

evalFields(fields, i, js, h) ==
    IF i > Len(fields) THEN Res(Nil, h)
    ELSE evalFieldsNext(fields, i, js, evalFC(fields[i].Expr, js, h))

evalFunctionCalls(s, js, h) == evalFields(s.Fields, 1, js, h)

\* evalMetric: Eval(f.Expr, nil).(float64) for every field, in order.  The
\* result is [ps |-> points, h |-> heap', panic |-> "" or the message].
\* A point is its Metric; TS is the wall clock and is left out.
RECURSIVE metricLoop(_, _, _, _)
metricPoint(fields, i, ps, r) ==
    IF IsPanic(r.v) THEN [ps |-> ps, h |-> r.h, panic |-> r.v.msg]
    ELSE IF r.v.t # "float"
         THEN [ps |-> ps, h |-> r.h, panic |-> "interface conversion"]
         ELSE metricLoop(fields, i + 1, Append(ps, r.v), r.h)

metricLoop(fields, i, ps, h) ==
    IF i > Len(fields) THEN [ps |-> ps, h |-> h, panic |-> ""]
    ELSE metricPoint(fields, i, ps, Eval(fields[i].Expr, NilJs, h))

evalMetric(s, h) == metricLoop(s.Fields, 1, <<>>, h)

-----------------------------------------------------------------------------
(* The printer.  A text is the sequence of its lexical units: a number is  *)
(* its digits and the count of fractional digits, a quoted string keeps    *)
(* its quote character, so two texts are equal exactly when the printed    *)
(* strings are.                                                            *)

Tok(t) == [tok |-> t]
IdentTok(s) == [tok |-> "IDENT", lit |-> s]
StringTok(s, q) == [tok |-> "STRING", str |-> s, q |-> q]
IntegerTok(i) == [tok |-> "INTEGER", int |-> i]
\* The decimal numeral digits / 10^frac, written with frac fractional digits.
\* A numeral: a minus sign or none, the digits as a natural number and the
\* number of them after the point ("-0.000" is SignedNumberTok(TRUE, 0, 3)).
SignedNumberTok(neg, digits, frac) ==
    [tok |-> "NUMBER", neg |-> neg, digits |-> digits, frac |-> frac]
NumberTok(digits, frac) == SignedNumberTok(digits < 0, Abs(digits), frac)
\* What strconv writes for an infinity or a NaN.
SpecialTok(s) == [tok |-> "ILLEGAL", lit |-> s]
RegexTok(m) == [tok |-> "REGEX", matches |-> m]

\* The names that print without quotes: identifiers that are no keywords,
\* and dotted paths of them (Dimensions.String() of `group by tcp.src_ip,
\* tcp.dst_ip` is `tcp.src_ip, tcp.dst_ip`).
PlainIdents ==
    {"uid", "x", "y", "z", "f", "p", "foo", "bar", "value", "host", "a", "b",
     "total", "tcp", "src_ip", "dst_ip", "in_pkts", "packetbeat", "cpu",
     "tcp.src_ip", "tcp.dst_ip", "tcp.in_pkts"}

\* QuoteIdent of one segment, as the text it writes: nothing for the empty
\* segment, the identifier itself when it is a plain one, else the segment
\* in double quotes.
QuoteIdent(s) ==
    IF s = "" THEN <<>>
    ELSE IF s \in PlainIdents THEN <<IdentTok(s)>>
    ELSE <<StringTok(s, "\"")>>

\* QuoteString: single quotes.
QuoteString(s) == StringTok(s, "'")


\* The digits of |v| * 10^prec for a finite v, rounded to the nearest integer,
\* ties to even: the exact binary value of v is what is rounded.
FormatDigits(M, e) ==
    IF e >= 0 THEN BToInt(BShl(M, e)) ELSE BToInt(FRoundBits(M, -e))

\* strconv.FormatFloat(v, 'f', prec, 64) and fmt.Sprintf("%f", v) (prec 6).
FormatFloat(v, prec) ==
    IF IsNaN(v) THEN SpecialTok("NaN")
    ELSE IF IsInf(v) THEN SpecialTok(IF v.s = 0 THEN "+Inf" ELSE "-Inf")
    ELSE SignedNumberTok(v.s = 1,
                         FormatDigits(BMul(v.m, BFromInt(Pow10(prec))), v.e),
                         prec)

\* Token.String of an operator.
OpTok(op) == Tok(op)

\* ListLiteral.String: the text of one element.
ListElemText(v) ==
    CASE v.t = "string" -> QuoteIdent(v.s)
      [] v.t = "float"  -> <<FormatFloat(v, 6)>>
      [] v.t = "int"    -> <<IntegerTok(v)>>
      [] OTHER -> <<>>

RECURSIVE JoinTexts(_, _)
JoinTexts(texts, sep) ==
    IF Len(texts) = 0 THEN <<>>
    ELSE IF Len(texts) = 1 THEN texts[1]
    ELSE texts[1] \o <<sep>> \o JoinTexts(Tail(texts), sep)

\* Calling String on a nil Expr interface panics: whether String(e) does.
RECURSIVE StringPanics(_)
StringPanics(e) ==
    CASE e.k = "nil" -> TRUE
      [] e.k = "BinaryExpr" -> StringPanics(e.LHS) \/ StringPanics(e.RHS)
      [] e.k = "ParenExpr" -> StringPanics(e.Expr)
      [] e.k = "Call" -> \E i \in 1..Len(e.Args) : StringPanics(e.Args[i])
      [] OTHER -> FALSE

\* String() of an expression node.
RECURSIVE String(_)
String(e) ==
    CASE e.k = "VarRef" -> QuoteIdent(e.Val)
      [] e.k = "Call" ->
            <<IdentTok(e.Name), Tok("(")>>
            \o JoinTexts([i \in 1..Len(e.Args) |-> String(e.Args[i])], Tok(","))
            \o <<Tok(")")>>
      [] e.k = "NumberLiteral" -> <<FormatFloat(e.Val, 3)>>
      [] e.k = "IntegerLiteral" -> <<IntegerTok(e.Val)>>
      [] e.k = "BooleanLiteral" -> <<Tok(IF e.Val THEN "TRUE" ELSE "FALSE")>>
      [] e.k = "ListLiteral" ->
            <<Tok("[")>>
            \o JoinTexts([i \in 1..Len(e.Vals) |-> ListElemText(e.Vals[i])], Tok(","))
            \o <<Tok("]")>>
      [] e.k = "StringLiteral" -> <<QuoteString(e.Val)>>
      [] e.k = "BinaryExpr" -> String(e.LHS) \o <<OpTok(e.Op)>> \o String(e.RHS)
      [] e.k = "ParenExpr" -> <<Tok("(")>> \o String(e.Expr) \o <<Tok(")")>>
      [] e.k = "RegexLiteral" -> <<RegexTok(e.Val)>>
      [] OTHER -> <<>>

\* Field.String and Fields.String.
FieldString(f) ==
    IF f.Alias = "" THEN String(f.Expr)
    ELSE String(f.Expr) \o <<Tok("AS")>> \o QuoteIdent(f.Alias)

FieldsString(fields) ==
    JoinTexts([i \in 1..Len(fields) |-> FieldString(fields[i])], Tok(","))

\* Sources.String.
SourcesString(sources) ==
    JoinTexts([i \in 1..Len(sources) |-> <<IdentTok(sources[i])>>], Tok(","))

\* SelectStatement.String: SELECT fields [FROM sources] [WHERE condition].
SelectString(s) ==
    <<Tok("SELECT")>> \o FieldsString(s.Fields)
    \o (IF Len(s.Sources) > 0 THEN <<Tok("FROM")>> \o SourcesString(s.Sources) ELSE <<>>)
    \o (IF s.Condition # NilExpr THEN <<Tok("WHERE")>> \o String(s.Condition) ELSE <<>>)

-----------------------------------------------------------------------------
(* Deep copy and the group flattener.                                      *)

\* A copy: [e |-> the copy, h |-> the heap with the new Calls, panic |-> ..].
Copied(e, h) == [e |-> e, h |-> h, panic |-> ""]
CopyPanic(h, msg) == [e |-> NilExpr, h |-> h, panic |-> msg]

\* A copy that keeps the source's Call node instead of allocating one.
CloneCallShared(expr, args, h) == Copied(Call(expr.Name, args, expr.id), h)

\* CloneExpr on a Call whose arguments are copied: &Call{Name: .., Args: ..}
\* allocates a new node with the zero accumulator.
CloneCall(expr, args, h) ==
    Copied(Call(expr.Name, args, Len(h) + 1), Append(h, ZeroAcc))

\* CloneExpr.  There is no case for a ListLiteral: it ends in
\* panic("unreachable").
RECURSIVE CloneExpr(_, _)
RECURSIVE CloneArgs(_, _, _, _)
CloneArgsNext(args, i, done, c) ==
    IF c.panic # "" THEN c
    ELSE CloneArgs(args, i + 1, Append(done, c.e), c.h)

CloneArgs(args, i, done, h) ==
    IF i > Len(args) THEN [e |-> done, h |-> h, panic |-> ""]
    ELSE CloneArgsNext(args, i, done, CloneExpr(args[i], h))

\* The BinaryExpr case: LHS copied to l, then RHS copied to r.
CloneBinaryRHS(expr, l, r) ==
    IF r.panic # "" THEN r ELSE Copied(BinaryExpr(expr.Op, l.e, r.e), r.h)

CloneBinaryLHS(expr, l) ==
    IF l.panic # "" THEN l ELSE CloneBinaryRHS(expr, l, CloneExpr(expr.RHS, l.h))

\* The Call case once the arguments are copied to a.
CloneCallArgs(expr, a) ==
    IF a.panic # "" THEN a ELSE CloneCall(expr, a.e, a.h)

\* The ParenExpr case once the inner expression is copied to c.
CloneParen(c) == IF c.panic # "" THEN c ELSE Copied(ParenExpr(c.e), c.h)

CloneExpr(expr, h) ==
    CASE expr.k = "nil" -> Copied(NilExpr, h)
      [] expr.k = "BinaryExpr" -> CloneBinaryLHS(expr, CloneExpr(expr.LHS, h))
      [] expr.k = "BooleanLiteral" -> Copied(BooleanLiteral(expr.Val), h)
      [] expr.k = "Call" -> CloneCallArgs(expr, CloneArgs(expr.Args, 1, <<>>, h))
      [] expr.k = "IntegerLiteral" -> Copied(IntegerLiteral(expr.Val), h)
      [] expr.k = "NumberLiteral" -> Copied(NumberLiteral(expr.Val), h)
      [] expr.k = "ParenExpr" -> CloneParen(CloneExpr(expr.Expr, h))
      [] expr.k = "RegexLiteral" -> Copied(RegexLiteral(expr.Val), h)
      [] expr.k = "StringLiteral" -> Copied(StringLiteral(expr.Val), h)
      [] expr.k = "VarRef" -> Copied(VarRef(expr.Val, expr.Segments), h)
      [] OTHER -> CopyPanic(h, "unreachable")

\* The loop of Clone over the fields.
RECURSIVE CloneFields(_, _, _, _)
CloneFieldsNext(fields, i, done, c) ==
    IF c.panic # "" THEN c
    ELSE CloneFields(fields, i + 1, Append(done, Field(c.e, fields[i].Alias)), c.h)

CloneFields(fields, i, done, h) ==
    IF i > Len(fields) THEN [e |-> done, h |-> h, panic |-> ""]
    ELSE CloneFieldsNext(fields, i, done, CloneExpr(fields[i].Expr, h))

\* SelectStatement.Clone: [s |-> the copy, h |-> heap', panic |-> ..];
\* the condition is copied (c), then the fields (f), then the dimensions (d).
CloneDimensions(s, c, f, d) ==
    IF d.panic # "" THEN [s |-> s, h |-> d.h, panic |-> d.panic]
    ELSE [s |-> [Fields |-> f.e, Sources |-> s.Sources,
                 Condition |-> c.e, Dimensions |-> d.e],
          h |-> d.h, panic |-> ""]

CloneStatementFields(s, c, f) ==
    IF f.panic # "" THEN [s |-> s, h |-> f.h, panic |-> f.panic]
    ELSE CloneDimensions(s, c, f, CloneArgs(s.Dimensions, 1, <<>>, f.h))

CloneCondition(s, c) ==
    IF c.panic # "" THEN [s |-> s, h |-> c.h, panic |-> c.panic]
    ELSE CloneStatementFields(s, c, CloneFields(s.Fields, 1, <<>>, c.h))

Clone(s, h) == CloneCondition(s, CloneExpr(s.Condition, h))

\* FlatStatByGroup: the literal node that wraps a dimension's value.
DimLiteral(v) ==
    CASE v.t = "string" -> StringLiteral(v.s)
      [] v.t = "float"  -> NumberLiteral(v)
      [] v.t = "bool"   -> BooleanLiteral(v.b)
      [] OTHER -> NilExpr

\* FlatStatByGroup: the predicate root of one document; empty is the dummy
\* root &BinaryExpr{}.
EmptyRoot == BinaryExpr("ILLEGAL", NilExpr, NilExpr)

\* AddDimension that starts from the seed every time.
AddDimensionFromSeed(root, rhs) == BinaryExpr("AND", BooleanLiteral(TRUE), rhs)

\* root extended by the equality rhs of one dimension.
AddDimension(root, rhs) ==
    IF root.LHS = NilExpr
    THEN BinaryExpr("AND", BooleanLiteral(TRUE), rhs)
    ELSE BinaryExpr("AND", root, rhs)

RECURSIVE DimRoot(_, _, _, _, _)
DimRootNext(dims, i, js, root, r) ==
    IF IsPanic(r.v) THEN CopyPanic(r.h, r.v.msg)
    ELSE DimRoot(dims, i + 1, js,
                 AddDimension(root, BinaryExpr("EQ", DimLiteral(r.v), dims[i])), r.h)

DimRoot(dims, i, js, root, h) ==
    IF i > Len(dims) THEN [e |-> root, h |-> h, panic |-> ""]
    ELSE DimRootNext(dims, i, js, root, Eval(dims[i], js, h))

\* groups[key] = root; groups is [keys |-> the keys in order of first
\* insertion, root |-> key -> root].
PutGroup(groups, key, root) ==
    [keys |-> IF key \in DOMAIN groups.root THEN groups.keys
              ELSE Append(groups.keys, key),
     root |-> [x \in DOMAIN groups.root \cup {key} |->
                 IF x = key THEN root ELSE groups.root[x]]]

\* FlatStatByGroup, first loop: groups[root.String()] = root for every
\* document.
RECURSIVE GroupLoop(_, _, _, _, _)
GroupLoopRoot(s, batch, i, groups, root, h) ==
    IF StringPanics(root)
    THEN [groups |-> groups, h |-> h, panic |-> "nil pointer dereference"]
    ELSE GroupLoop(s, batch, i + 1, PutGroup(groups, String(root), root), h)

GroupLoopNext(s, batch, i, groups, d) ==
    IF d.panic # "" THEN [groups |-> groups, h |-> d.h, panic |-> d.panic]
    ELSE GroupLoopRoot(s, batch, i, groups, BinaryExpr("AND", d.e, s.Condition), d.h)

GroupLoop(s, batch, i, groups, h) ==
    IF i > Len(batch) THEN [groups |-> groups, h |-> h, panic |-> ""]
    ELSE GroupLoopNext(s, batch, i, groups,
                       DimRoot(s.Dimensions, 1, batch[i], EmptyRoot, h))

\* FlatStatByGroup, second loop: m[k] = s.Clone(); m[k].Condition = v.  The
\* order in which Go ranges over the map only renames the new Calls.
RECURSIVE CloneLoop(_, _, _, _, _)
CloneLoopNext(s, groups, i, m, k, c) ==
    IF c.panic # "" THEN [m |-> m, h |-> c.h, panic |-> c.panic]
    ELSE CloneLoop(s, groups, i + 1,
                   [x \in DOMAIN m \cup {k} |->
                      IF x = k THEN [c.s EXCEPT !.Condition = groups.root[k]]
                      ELSE m[x]],
                   c.h)

CloneLoop(s, groups, i, m, h) ==
    IF i > Len(groups.keys) THEN [m |-> m, h |-> h, panic |-> ""]
    ELSE CloneLoopNext(s, groups, i, m, groups.keys[i], Clone(s, h))

EmptyMap == [x \in {} |-> x]

\* FlatStatByGroup: [m |-> key -> statement, h |-> heap', panic |-> ..].
FlatGroups(s, g) ==
    IF g.panic # "" THEN [m |-> EmptyMap, h |-> g.h, panic |-> g.panic]
    ELSE CloneLoop(s, g.groups, 1, EmptyMap, g.h)

FlatStatByGroup(s, batch, h) ==
    FlatGroups(s, GroupLoop(s, batch, 1, [keys |-> <<>>, root |-> EmptyMap], h))

-----------------------------------------------------------------------------
(* Statement validation.  An error is its message ("" is no error); the    *)
(* formatted operands of a message are left as in the format string.       *)

ErrInvalidOperator == "invalid operator %s in SELECT field, only support +-*/"
ErrInvalidField == "invalid field %v in SELECT field, at least one function"
ErrMultipleSelectors ==
    "mixing multiple selector functions with tags or fields is not supported"
ErrMixing == "mixing aggregate and non-aggregate queries is not supported"
ErrNumArgs == "invalid number of arguments for %s, expected 1, got %d"
ErrCountArg == "expected only field argument in count()"
ErrFieldArg == "expected field argument in %s()"
ErrBinaryMix == "binary expressions cannot mix aggregates and raw fields"
ErrArgCall == "argument binary expressions cannot mix function"
ErrArgNoKey == "argument binary expressions at least one key"
ErrFilterString == "invalid filter, unsupport op %s for string"

Selectors ==
    {"top", "bottom", "max", "min", "first", "last", "percentile", "sample"}

\* Walk with the validateField visitor: the first operator, in depth-first
\* order, that is none of + - * /; "" when there is none.
RECURSIVE badToken(_)
RECURSIVE badTokenIn(_, _)
badTokenIn(nodes, i) ==
    IF i > Len(nodes) THEN ""
    ELSE LET b == badToken(nodes[i]) IN
         IF b # "" THEN b ELSE badTokenIn(nodes, i + 1)

badToken(e) ==
    CASE e.k = "BinaryExpr" ->
            IF e.Op \notin {"ADD", "SUB", "MUL", "DIV"} THEN e.Op
            ELSE badTokenIn(<<e.LHS, e.RHS>>, 1)
      [] e.k = "ParenExpr" -> badToken(e.Expr)
      [] e.k = "Call" -> badTokenIn(e.Args, 1)
      [] OTHER -> ""

\* Walk with a binaryExprValidator v = [calls, refs, err].
RECURSIVE walkValidator(_, _)
RECURSIVE BinaryExprValidate(_)

\* binaryExprValidator.Visit on a Call: the first argument that is a
\* BinaryExpr is validated, and the walk does not descend.
visitCall(n, v) ==
    LET bins == {i \in 1..Len(n.Args) : n.Args[i].k = "BinaryExpr"} IN
    IF bins = {} THEN [v EXCEPT !.calls = TRUE]
    ELSE LET i == CHOOSE x \in bins : \A y \in bins : x <= y IN
         [v EXCEPT !.calls = TRUE, !.err = BinaryExprValidate(n.Args[i])]

walkValidator(n, v) ==
    IF v.err # "" THEN v
    ELSE CASE n.k = "Call" -> visitCall(n, v)
           [] n.k = "VarRef" -> [v EXCEPT !.refs = TRUE]
           [] n.k = "BinaryExpr" -> walkValidator(n.RHS, walkValidator(n.LHS, v))
           [] n.k = "ParenExpr" -> walkValidator(n.Expr, v)
           [] OTHER -> v

NewValidator == [calls |-> FALSE, refs |-> FALSE, err |-> ""]

\* BinaryExpr.validate.
BinaryExprValidate(e) ==
    LET v == walkValidator(e, NewValidator) IN
    IF v.err # "" THEN v.err
    ELSE IF v.calls /\ v.refs THEN ErrBinaryMix
    ELSE ""

\* validateArgs without the check that the argument holds no Call.
validateArgsAllowCall(e) ==
    IF walkValidator(e, NewValidator).err # "" THEN walkValidator(e, NewValidator).err
    ELSE IF ~walkValidator(e, NewValidator).refs THEN ErrArgNoKey
    ELSE ""

\* BinaryExpr.validateArgs.
validateArgs(e) ==
    LET v == walkValidator(e, NewValidator) IN
    IF v.err # "" THEN v.err
    ELSE IF v.calls THEN ErrArgCall
    ELSE IF ~v.refs THEN ErrArgNoKey
    ELSE ""

\* validateFields: the check of one field, then the loop.
validateFieldExpr(e) ==
    IF badToken(e) # "" THEN ErrInvalidOperator
    ELSE CASE e.k = "BinaryExpr" -> BinaryExprValidate(e)
           [] e.k = "ParenExpr" -> ""
           [] e.k = "Call" -> ""
           [] OTHER -> ErrInvalidField

RECURSIVE validateFieldsFrom(_, _)
validateFieldsFrom(fields, i) ==
    IF i > Len(fields) THEN ""
    ELSE LET err == validateFieldExpr(fields[i].Expr) IN
         IF err # "" THEN err ELSE validateFieldsFrom(fields, i + 1)

validateFields(fields) == validateFieldsFrom(fields, 1)

\* walkFunctionCalls: the Calls of a field, outside any Call's arguments.
RECURSIVE walkFunctionCalls(_)
walkFunctionCalls(e) ==
    CASE e.k = "Call" -> <<e>>
      [] e.k = "BinaryExpr" -> walkFunctionCalls(e.LHS) \o walkFunctionCalls(e.RHS)
      [] e.k = "ParenExpr" -> walkFunctionCalls(e.Expr)
      [] OTHER -> <<>>

\* FunctionCalls: the Calls of all fields, in order.
RECURSIVE FunctionCallsFrom(_, _)
FunctionCallsFrom(fields, i) ==
    IF i > Len(fields) THEN <<>>
    ELSE walkFunctionCalls(fields[i].Expr) \o FunctionCallsFrom(fields, i + 1)

FunctionCalls(fields) == FunctionCallsFrom(fields, 1)

\* validSelectWithAggregate.
validSelectWithAggregate(fields) ==
    LET all == FunctionCalls(fields)
        calls == {all[i].Name : i \in 1..Len(all)}
        numAggregates ==
            Cardinality({i \in 1..Len(fields) :
                            Len(walkFunctionCalls(fields[i].Expr)) # 0})
        onlySelectors == calls \subseteq Selectors
    IN
    IF onlySelectors /\ numAggregates = 1 THEN ""
    ELSE IF onlySelectors /\ numAggregates > 1 /\ Len(fields) # numAggregates
         THEN ErrMultipleSelectors
    ELSE IF numAggregates # 0 /\ numAggregates # Len(fields) THEN ErrMixing
    ELSE ""

\* validateAggregates: the checks of one Call, then the loop over all.
validateCall(fields, c) ==
    LET mix == validSelectWithAggregate(fields) IN
    IF mix # "" THEN mix
    ELSE IF Len(c.Args) # 1 THEN ErrNumArgs
    ELSE IF c.Name = "count" /\ c.Args[1].k # "VarRef" THEN ErrCountArg
    ELSE CASE c.Args[1].k = "VarRef" -> ""
           [] c.Args[1].k = "BinaryExpr" -> validateArgs(c.Args[1])
           [] OTHER -> ErrFieldArg

RECURSIVE validateCallsFrom(_, _, _)
validateCallsFrom(fields, calls, i) ==
    IF i > Len(calls) THEN ""
    ELSE LET err == validateCall(fields, calls[i]) IN
         IF err # "" THEN err ELSE validateCallsFrom(fields, calls, i + 1)

validateAggregates(fields) == validateCallsFrom(fields, FunctionCalls(fields), 1)

\* SelectStatement.validate.
validate(fields) ==
    LET err == validateFields(fields) IN
    IF err # "" THEN err ELSE validateAggregates(fields)

\* The parser's type check of the WHERE expression: the ordering and the
\* arithmetic operators take no string operand.
RECURSIVE validateFilter(_)
validateFilter(e) ==
    CASE e.k = "BinaryExpr" ->
            LET l == validateFilter(e.LHS) IN
            IF l # "" THEN l
            ELSE LET r == validateFilter(e.RHS) IN
                 IF r # "" THEN r
                 ELSE IF /\ e.Op \in {"LT", "LTE", "GT", "GTE", "MUL", "DIV", "ADD", "SUB"}
                         /\ (e.LHS.k = "StringLiteral" \/ e.RHS.k = "StringLiteral")
                      THEN ErrFilterString ELSE ""
      [] e.k = "ParenExpr" -> validateFilter(e.Expr)
      [] OTHER -> ""

\* ParseStatement on a text the parser builds the statement s from: the
\* error it returns.
ParseError(s) ==
    LET err == validate(s.Fields) IN
    IF err # "" THEN err ELSE validateFilter(s.Condition)

-----------------------------------------------------------------------------
(* The inputs of the driver: statements, as the parser builds them, and    *)
(* batches of documents.                                                   *)

Uid == VarRef("uid", <<"uid">>)
X == VarRef("x", <<"x">>)
Y == VarRef("y", <<"y">>)
SrcIp == VarRef("tcp.src_ip", <<"tcp", "src_ip">>)
DstIp == VarRef("tcp.dst_ip", <<"tcp", "dst_ip">>)

Select(fields, cond, dims) ==
    [Fields |-> fields, Sources |-> <<"p">>, Condition |-> cond, Dimensions |-> dims]

UidIs1 == BinaryExpr("EQ", Uid, IntegerLiteral(IntV(1)))

AggFields ==
    <<Field(Call("max", <<X>>, 1), ""), Field(Call("min", <<X>>, 2), ""),
      Field(Call("count", <<X>>, 3), ""), Field(Call("sum", <<X>>, 4), ""),
      Field(Call("avg", <<X>>, 5), "")>>

\* SELECT max(x), min(x), count(x), sum(x), avg(x) FROM p WHERE uid = 1
StmtAgg == Select(AggFields, UidIs1, <<>>)
\* SELECT sum(x) FROM p GROUP BY tcp.src_ip, tcp.dst_ip
StmtGroupNoWhere == Select(<<Field(Call("sum", <<X>>, 1), "")>>, NilExpr, <<SrcIp, DstIp>>)
\* SELECT max(x), ..., avg(x) FROM p WHERE uid = 1 GROUP BY tcp.src_ip, tcp.dst_ip
StmtGroupWhere == Select(AggFields, UidIs1, <<SrcIp, DstIp>>)
\* SELECT avg(x) FROM p
StmtNoWhere == Select(<<Field(Call("avg", <<X>>, 1), "")>>, NilExpr, <<>>)
\* SELECT x + y FROM p WHERE uid = 1
StmtRawBinary == Select(<<Field(BinaryExpr("ADD", X, Y), "")>>, UidIs1, <<>>)
\* SELECT sum(x) * (sum(x) / count(x)) AS total FROM p WHERE uid = 1
StmtParen ==
    Select(<<Field(BinaryExpr("MUL", Call("sum", <<X>>, 1),
                     ParenExpr(BinaryExpr("DIV", Call("sum", <<X>>, 2),
                                                 Call("count", <<X>>, 3)))),
                   "total")>>,
           UidIs1, <<>>)
\* SELECT count(value), value FROM p
StmtMixed ==
    Select(<<Field(Call("count", <<VarRef("value", <<"value">>)>>, 1), ""),
             Field(VarRef("value", <<"value">>), "")>>, NilExpr, <<>>)

Statements ==
    {StmtAgg, StmtGroupNoWhere, StmtGroupWhere, StmtNoWhere, StmtRawBinary,
     StmtParen, StmtMixed}

\* The Call identities of an expression, and of a statement's fields.
RECURSIVE CallIds(_)
CallIds(e) ==
    CASE e.k = "Call" ->
            {e.id} \cup UNION {CallIds(e.Args[i]) : i \in 1..Len(e.Args)}
      [] e.k = "BinaryExpr" -> CallIds(e.LHS) \cup CallIds(e.RHS)
      [] e.k = "ParenExpr" -> CallIds(e.Expr)
      [] OTHER -> {}

StmtCallIds(s) ==
    UNION {CallIds(s.Fields[i].Expr) : i \in 1..Len(s.Fields)}
    \cup CallIds(s.Condition)
    \cup UNION {CallIds(s.Dimensions[i]) : i \in 1..Len(s.Dimensions)}

\* The heap after the parser has built s: every Call it emits has
\* First = true, result = 0 and Count = 0.
ParsedHeap(s) == [i \in 1..Cardinality(StmtCallIds(s)) |-> InitAcc]

\* A document {"uid": .., "x": .., "tcp": {"src_ip": .., "dst_ip": ..}}; a
\* member given as JNotExist is absent.
Members(m) == [n \in {x \in DOMAIN m : m[x] # JNotExist} |-> m[n]]
Doc(uid, x, src, dst) ==
    JObj(Members([uid |-> uid, x |-> x,
                  tcp |-> JObj(Members([src_ip |-> src, dst_ip |-> dst]))]))

N(i) == JNum(i, 0)

\* Documents for the statements without GROUP BY.
AggPool ==
    {Doc(N(u), x, N(1), N(1)) : u \in {1, 2}, x \in {N(-1), JNum(5, 1), N(2)}}
    \cup {Doc(JNotExist, N(1), N(1), N(1)), Doc(N(1), JStr("a"), N(1), N(1)),
          Doc(N(1), JNotExist, N(1), N(1))}

\* Documents for the statements with GROUP BY.
GroupPool ==
    {Doc(N(1), N(-1), N(1), N(1)), Doc(N(1), N(2), N(1), N(1)),
     Doc(N(1), N(2), N(2), N(1)), Doc(N(1), N(-1), N(1), N(2)),
     Doc(N(2), N(2), N(1), N(1)),
     Doc(N(1), N(2), JNum(12341, 4), N(1)),
     Doc(N(1), N(2), JNum(12342, 4), N(1)),
     Doc(N(1), N(2), JNotExist, N(1))}

Pool(s) == IF Len(s.Dimensions) > 0 THEN GroupPool ELSE AggPool

\* The batches of at most MaxDocs documents of a pool.
Batches(pool) == UNION {[1..n -> pool] : n \in 0..MaxDocs}

-----------------------------------------------------------------------------
(* The driver EvalSQL(sql, docs), one step at a time.                      *)

NoCur == [k |-> <<>>, i |-> 0]
NoHist == [panic |-> "", skipped |-> 0]

\* The variables the driver does not use.
Idle == [k |-> "idle"]

Init ==
    /\ pc = "start"
    /\ sql \in Statements
    /\ docs \in Batches(Pool(sql))
    /\ heap = <<>>
    /\ stmts = EmptyMap
    /\ todo = {}
    /\ cur = NoCur
    /\ pm = EmptyMap
    /\ hist = NoHist
    /\ input = Idle
    /\ output = Idle

\* A panic unwinds EvalSQL: nothing is returned.
Raise(msg) ==
    /\ pc' = "panic"
    /\ hist' = [hist EXCEPT !.panic = msg]

\* stmt, err := ParseStatement(sql); if err != nil { panic(err) }
ParseStatement ==
    /\ pc = "start"
    /\ IF ParseError(sql) # ""
       THEN Raise(ParseError(sql)) /\ UNCHANGED heap
       ELSE pc' = "parsed" /\ heap' = ParsedHeap(sql) /\ UNCHANGED hist
    /\ UNCHANGED <<sql, docs, stmts, todo, cur, pm, input, output>>

\* selectStmts = selectStmt.FlatStatByGroup(docs), with its result f.
Flattened(f) ==
    IF f.panic # ""
    THEN Raise(f.panic) /\ UNCHANGED <<heap, stmts, todo>>
    ELSE /\ pc' = "loop"
         /\ stmts' = f.m
         /\ heap' = f.h
         /\ todo' = DOMAIN f.m
         /\ UNCHANGED hist

\* selectStmts[selectStmt.Condition.String()] = selectStmt, replaced by
\* FlatStatByGroup(docs) when the statement has dimensions.
Flatten ==
    /\ pc = "parsed"
    /\ IF StringPanics(sql.Condition)
       THEN Raise("nil pointer dereference") /\ UNCHANGED <<heap, stmts, todo>>
       ELSE IF Len(sql.Dimensions) > 0
       THEN Flattened(FlatStatByGroup(sql, docs, heap))
       ELSE /\ pc' = "loop"
            /\ stmts' = [x \in {String(sql.Condition)} |-> sql]
            /\ todo' = {String(sql.Condition)}
            /\ UNCHANGED <<heap, hist>>
    /\ UNCHANGED <<sql, docs, cur, pm, input, output>>

\* for k, st := range selectStmts: Go ranges over a map in any order.
NextStmt ==
    /\ pc = "loop"
    /\ cur = NoCur
    /\ \E k \in todo : cur' = [k |-> k, i |-> 1]
    /\ UNCHANGED <<pc, sql, docs, heap, stmts, todo, pm, hist, input, output>>

\* The document is done: r is what the evaluation left.
DocDone(r, skipped) ==
    IF IsPanic(r.v)
    THEN Raise(r.v.msg) /\ UNCHANGED <<heap, cur>>
    ELSE /\ heap' = r.h
         /\ cur' = [cur EXCEPT !.i = @ + 1]
         /\ hist' = [hist EXCEPT !.skipped = @ + skipped]
         /\ UNCHANGED pc

\* A loop that accumulates every document, whatever the predicate gives.
FilteredNever(st, doc, res) ==
    IF IsPanic(res.v) THEN DocDone(res, 0)
    ELSE DocDone(evalFunctionCalls(st, doc, res.h), 0)

\* switch res := Eval(st.Condition, &doc).(type)
Filtered(st, doc, res) ==
    IF IsPanic(res.v) THEN DocDone(res, 0)
    ELSE IF res.v = BoolV(TRUE) THEN DocDone(evalFunctionCalls(st, doc, res.h), 0)
    ELSE DocDone(res, IF res.v.t = "bool" THEN 0 ELSE 1)

\* One document of the inner loop: Eval(st.Condition, &doc), and
\* evalFunctionCalls when it is the bool true.
EvalDoc ==
    /\ pc = "loop"
    /\ cur # NoCur
    /\ cur.i <= Len(docs)
    /\ Filtered(stmts[cur.k], docs[cur.i],
                Eval(stmts[cur.k].Condition, docs[cur.i], heap))
    /\ UNCHANGED <<sql, docs, stmts, todo, pm, input, output>>

\* pm[k] = ms, with ms the result of evalMetric.
Emitted(ms) ==
    IF ms.panic # ""
    THEN Raise(ms.panic) /\ UNCHANGED <<heap, todo, cur, pm>>
    ELSE /\ pm' = [x \in DOMAIN pm \cup {cur.k} |->
                     IF x = cur.k THEN ms.ps ELSE pm[x]]
         /\ heap' = ms.h
         /\ todo' = todo \ {cur.k}
         /\ cur' = NoCur
         /\ UNCHANGED <<pc, hist>>

\* ms := st.evalMetric(); pm[k] = ms
EmitMetric ==
    /\ pc = "loop"
    /\ cur # NoCur
    /\ cur.i > Len(docs)
    /\ Emitted(evalMetric(stmts[cur.k], heap))
    /\ UNCHANGED <<sql, docs, stmts, input, output>>

\* return pm
Return ==
    /\ pc = "loop"
    /\ cur = NoCur
    /\ todo = {}
    /\ pc' = "done"
    /\ UNCHANGED <<sql, docs, heap, stmts, todo, cur, pm, hist, input, output>>

Next == ParseStatement \/ Flatten \/ NextStmt \/ EvalDoc \/ EmitMetric \/ Return

Spec == Init /\ [][Next]_vars

-----------------------------------------------------------------------------
(* What the driver is expected to return, computed from the batch alone.   *)

\* The document passes WHERE uid = 1.
PassesUid1(d) == JGet(d, <<"uid">>) = N(1)
\* The documents of the batch that pass WHERE uid = 1, in order.
Matched == SelectSeq(docs, PassesUid1)

NumericX(d) == JGet(d, <<"x">>).j = "Number"
XOf(d) == ParseFloat(JGet(d, <<"x">>))

RECURSIVE SumX(_)
SumX(ds) ==
    IF ds = <<>> THEN FloatV(0)
    ELSE FAdd(SumX(SubSeq(ds, 1, Len(ds) - 1)), XOf(ds[Len(ds)]))

XValues(ds) == {XOf(ds[i]) : i \in 1..Len(ds)}
MaxX(ds) == CHOOSE v \in XValues(ds) : \A w \in XValues(ds) : FLe(w, v)
MinX(ds) == CHOOSE v \in XValues(ds) : \A w \in XValues(ds) : FLe(v, w)

\* The five points of max(x), min(x), count(x), sum(x), avg(x) over ds.
AggPoints(ds) ==
    <<MaxX(ds), MinX(ds), FloatV(Len(ds)), SumX(ds), FDiv(SumX(ds), FloatV(Len(ds)))>>

\* The (src_ip, dst_ip) tuple of a document, and the documents of a tuple.
TupleOf(d) == <<JGet(d, <<"tcp", "src_ip">>), JGet(d, <<"tcp", "dst_ip">>)>>
HasTuple(t) == LET Same(d) == TupleOf(d) = t IN SelectSeq(docs, Same)
Tuples == {TupleOf(docs[i]) : i \in 1..Len(docs)}

\* C1: for max(x), min(x), count(x), sum(x), avg(x) without GROUP BY, when x
\* is a number in every document that passes the WHERE predicate, the driver
\* returns one entry whose points are the maximum, the minimum, the number,
\* the sum and the mean of x over the matched documents M; avg is 0.0 when M
\* is empty.
C1_AggregatesOverMatched ==
    (/\ pc = "done"
     /\ sql = StmtAgg
     /\ \A i \in 1..Len(docs) : PassesUid1(docs[i]) => NumericX(docs[i]))
    => /\ DOMAIN pm = {String(UidIs1)}
       /\ Len(pm[String(UidIs1)]) = 5
       /\ IF Matched = <<>>
          THEN pm[String(UidIs1)][5] = FloatV(0)
          ELSE pm[String(UidIs1)] = AggPoints(Matched)

\* C1 witness: two documents with different negative and fractional x passed,
\* one document did not, and the driver returned.
C1_Witness ==
    /\ pc = "done"
    /\ sql = StmtAgg
    /\ \A i \in 1..Len(docs) : PassesUid1(docs[i]) => NumericX(docs[i])
    /\ Len(Matched) = 2
    /\ Len(docs) = 3
    /\ XValues(Matched) = {FloatV(-1), Rat(1, 2)}
    /\ pm[String(UidIs1)] = <<Rat(1, 2), FloatV(-1), FloatV(2), Rat(-1, 2), Rat(-1, 4)>>

\* C2: EvalSQL on SELECT sum(x) FROM p GROUP BY tcp.src_ip, tcp.dst_ip over
\* documents that all carry x and both dimensions returns one entry per
\* observed (src_ip, dst_ip) tuple, holding the sum of x over the documents
\* of that tuple.
C2_OneEntryPerTuple ==
    (/\ sql = StmtGroupNoWhere
     /\ pc \in {"done", "panic"}
     /\ \A i \in 1..Len(docs) :
           /\ NumericX(docs[i])
           /\ TupleOf(docs[i])[1].j = "Number"
           /\ TupleOf(docs[i])[2].j = "Number")
    => /\ pc = "done"
       /\ Cardinality(DOMAIN pm) = Cardinality(Tuples)
       /\ \A t \in Tuples : \E k \in DOMAIN pm : pm[k] = <<SumX(HasTuple(t))>>

\* C7: for every statement that ParseStatement accepts and every batch, the
\* driver does not panic, and what it returns holds under every key one
\* float point per field.
C7_DriverCompletes ==
    (ParseError(sql) = "")
    => /\ pc # "panic"
       /\ pc = "done" =>
            \A k \in DOMAIN pm :
               /\ Len(pm[k]) = Len(sql.Fields)
               /\ \A i \in 1..Len(pm[k]) : pm[k][i].t = "float"

-----------------------------------------------------------------------------
(* Eval of one binary expression against one document.                     *)

ExprOps ==
    {"ADD", "SUB", "MUL", "DIV", "AND", "OR", "EQ", "NEQ", "LT", "LTE", "GT",
     "GTE", "IN", "NI", "EQREGEX", "NEQREGEX"}

\* Operands: literals of every type, the two ends of int64 among them, a
\* reference to the number 0 (x), to the number 1 (uid) and to an absent
\* member (y).
Operands ==
    {IntegerLiteral(v) : v \in {IntV(-1), IntV(0), IntV(2), MaxInt64, MinInt64}}
    \cup {NumberLiteral(v) : v \in {FloatV(0), Rat(1, 2), FloatV(-2)}}
    \cup {StringLiteral("a"), BooleanLiteral(TRUE), BooleanLiteral(FALSE), RegexLiteral({"a"}),
          ListLiteral(<<IntV(2), StrV("a")>>), X, Uid, Y}

ExprDoc == Doc(N(1), N(0), N(1), N(1))

InitExpr ==
    /\ pc = "expr"
    /\ input \in {BinaryExpr(op, l, r) : op \in ExprOps, l \in Operands, r \in Operands}
    /\ docs = <<ExprDoc>>
    /\ output = Idle
    /\ sql = Idle
    /\ heap = <<>>
    /\ stmts = EmptyMap
    /\ todo = {}
    /\ cur = NoCur
    /\ pm = EmptyMap
    /\ hist = NoHist

\* Eval(input, &doc)
EvalExpr ==
    /\ pc = "expr"
    /\ pc' = "evaluated"
    /\ output' = Eval(input, docs[1], heap).v
    /\ UNCHANGED <<sql, docs, heap, stmts, todo, cur, pm, hist, input>>

NextExpr == EvalExpr

SpecExpr == InitExpr /\ [][NextExpr]_vars

\* The value of an operand of the input.
OperandValue(e) == Eval(e, docs[1], heap).v
IsNumber(v) == v.t \in {"int", "float"}
IsZero(v) == (v.t = "int" /\ v = IntV(0)) \/ (v.t = "float" /\ FEq(v, FloatV(0)))

\* C3: a DIV whose left operand is a number (integer or float) and whose
\* right operand evaluates to zero (integer or float) does not panic and
\* yields the float 0.0.
C3_DivByZeroYieldsZero ==
    (/\ pc = "evaluated"
     /\ input.Op = "DIV"
     /\ IsNumber(OperandValue(input.LHS))
     /\ IsZero(OperandValue(input.RHS)))
    => output = FloatV(0)

-----------------------------------------------------------------------------
(* A parsed statement and its deep copy under accumulate (evalFunctionCalls)*)
(* and emit (evalMetric), in any interleaving.  docs holds the documents    *)
(* accumulated into the source since its last emission.                    *)

StmtPool ==
    {Doc(N(1), N(-1), N(1), N(1)), Doc(N(1), N(2), N(1), N(1)),
     Doc(N(1), JStr("a"), N(1), N(1))}

\* hist.emitted: the source has emitted; hist.second: it had emitted before
\* its last emission; hist.cloneDocs: documents accumulated into the copy
\* since its last emission.
InitStmt ==
    /\ pc = "parsed"
    /\ sql \in {StmtAgg, StmtParen}
    /\ heap = ParsedHeap(sql)
    /\ stmts = [x \in {"src"} |-> sql]
    /\ docs = <<>>
    /\ cur = [k |-> "src", i |-> 0]
    /\ hist = [emitted |-> FALSE, second |-> FALSE, cloneDocs |-> 0]
    /\ input = Idle
    /\ output = Idle
    /\ todo = {}
    /\ pm = EmptyMap

\* stmts["clone"] = sql.Clone(), with c the result of Clone.
Cloned(c) ==
    /\ c.panic = ""
    /\ stmts' = [x \in {"src", "clone"} |-> IF x = "src" THEN sql ELSE c.s]
    /\ heap' = c.h

CloneStmt ==
    /\ "clone" \notin DOMAIN stmts
    /\ Cloned(Clone(sql, heap))
    /\ pc' = "cloned"
    /\ cur' = [k |-> "clone", i |-> 0]
    /\ input' = Idle
    /\ output' = Idle
    /\ UNCHANGED <<sql, docs, todo, pm, hist>>

\* stmts[t].evalFunctionCalls(&d), with r its result.
Accumulated(t, d, r) ==
    /\ ~IsPanic(r.v)
    /\ heap' = r.h
    /\ IF t = "src"
       THEN docs' = Append(docs, d) /\ UNCHANGED hist
       ELSE hist' = [hist EXCEPT !.cloneDocs = @ + 1] /\ UNCHANGED docs

Accumulate ==
    /\ \E t \in DOMAIN stmts, d \in StmtPool :
          /\ IF t = "src" THEN Len(docs) < MaxDocs ELSE hist.cloneDocs < MaxDocs
          /\ Accumulated(t, d, evalFunctionCalls(stmts[t], d, heap))
          /\ cur' = [k |-> t, i |-> 0]
    /\ pc' = "accumulated"
    /\ input' = Idle
    /\ output' = Idle
    /\ UNCHANGED <<sql, stmts, todo, pm>>

\* stmts[t].evalMetric(), with ms its result; input records the documents
\* the emission of the source covers.
EmittedBy(t, ms) ==
    /\ ms.panic = ""
    /\ heap' = ms.h
    /\ output' = ms.ps
    /\ IF t = "src"
       THEN /\ input' = docs
            /\ docs' = <<>>
            /\ hist' = [hist EXCEPT !.emitted = TRUE, !.second = hist.emitted]
       ELSE /\ input' = Idle
            /\ hist' = [hist EXCEPT !.cloneDocs = 0]
            /\ UNCHANGED docs

Emit ==
    /\ \E t \in DOMAIN stmts :
          /\ EmittedBy(t, evalMetric(stmts[t], heap))
          /\ cur' = [k |-> t, i |-> 0]
    /\ pc' = "emitted"
    /\ UNCHANGED <<sql, stmts, todo, pm>>

NextStmtOp == CloneStmt \/ Accumulate \/ Emit

SpecStmt == InitStmt /\ [][NextStmtOp]_vars

\* What a freshly parsed copy of s emits after accumulating ds alone.
RECURSIVE AccumulateAll(_, _, _)
AccumulateAll(s, ds, h) ==
    IF ds = <<>> THEN h
    ELSE AccumulateAll(s, Tail(ds), evalFunctionCalls(s, Head(ds), h).h)

FreshEmit(s, ds) == evalMetric(s, AccumulateAll(s, ds, ParsedHeap(s))).ps

\* C4: an emission (Eval on every field) leaves every Call of the statement
\* in the state result = 0.0, Count = 0, First = true, and every emission of
\* the parsed statement equals what a freshly parsed copy emits for the
\* documents accumulated since the previous emission.
C4_EmitResets ==
    (pc = "emitted")
    => /\ \A id \in StmtCallIds(stmts[cur.k]) : heap[id] = InitAcc
       /\ cur.k = "src" => output = FreshEmit(sql, input)

\* C4 witness: the parsed statement emitted for the second time, for a batch
\* of two documents whose largest x is negative.
C4_Witness ==
    /\ pc = "emitted"
    /\ cur.k = "src"
    /\ hist.second
    /\ sql = StmtAgg
    /\ Len(input) = 2
    /\ output[1] = FloatV(-1)
    /\ output = FreshEmit(sql, input)

\* C5: a statement made by Clone shares no Call with its source: an
\* operation on the copy changes no accumulator of the source, and an
\* operation on the source changes no accumulator of the copy.
C5_CloneSharesNoCall ==
    [][("clone" \in DOMAIN stmts /\ pc' \in {"accumulated", "emitted"})
       => \A id \in StmtCallIds(stmts[IF cur'.k = "src" THEN "clone" ELSE "src"]) :
             heap'[id] = heap[id]]_vars

\* C5 witness: the copy accumulated a document while the source holds
\* accumulated documents of its own, and differs from the source.
C5_Witness ==
    /\ pc = "accumulated"
    /\ cur.k = "clone"
    /\ "clone" \in DOMAIN stmts
    /\ Len(docs) = 2
    /\ hist.cloneDocs = 1
    /\ StmtCallIds(stmts["clone"]) \cap StmtCallIds(stmts["src"]) = {}
    /\ \E id \in StmtCallIds(stmts["src"]) : heap[id].Count = 2
    /\ \E id \in StmtCallIds(stmts["clone"]) : heap[id].Count = 1

\* C6: right after a deep copy, every Call of the copy is in the initial
\* state result = 0.0, Count = 0, First = true, whatever the source holds.
C6_CloneInitialState ==
    (pc = "cloned")
    => \A id \in StmtCallIds(stmts["clone"]) : heap[id] = InitAcc

-----------------------------------------------------------------------------
(* Statement validation of one field list.                                 *)

Value == VarRef("value", <<"value">>)

\* Field expressions; the Calls of one expression are the nodes 1 and 2.
FieldPool ==
    {Value, IntegerLiteral(IntV(7)),
     Call("count", <<Value>>, 1), Call("sum", <<Value>>, 1),
     Call("max", <<Value>>, 1), Call("first", <<X>>, 1),
     Call("count", <<>>, 1),
     Call("count", <<BinaryExpr("MUL", IntegerLiteral(IntV(7)), X)>>, 1),
     Call("sum", <<BinaryExpr("ADD", X, Y)>>, 1),
     Call("sum", <<BinaryExpr("MUL", IntegerLiteral(IntV(7)), IntegerLiteral(IntV(6)))>>, 1),
     Call("sum", <<BinaryExpr("ADD", X, Call("max", <<Y>>, 2))>>, 1),
     Call("count", <<Call("max", <<Value>>, 2)>>, 1),
     Call("sum", <<IntegerLiteral(IntV(1))>>, 1),
     Call("sum", <<BinaryExpr("EQ", X, IntegerLiteral(IntV(2)))>>, 1),
     Call("max", <<X, Y>>, 1),
     ParenExpr(Value), ParenExpr(Call("count", <<Value>>, 1)),
     BinaryExpr("ADD", Value, X),
     BinaryExpr("ADD", Call("sum", <<X>>, 1), Call("sum", <<Y>>, 2)),
     BinaryExpr("ADD", Call("sum", <<X>>, 1), Value),
     ParenExpr(BinaryExpr("ADD", Call("sum", <<X>>, 1), Y)),
     BinaryExpr("MUL", Call("sum", <<X>>, 1),
                ParenExpr(BinaryExpr("ADD", Call("sum", <<Y>>, 2), Value))),
     BinaryExpr("EQ", Value, IntegerLiteral(IntV(2)))}

\* The expression e with its Calls renamed to nodes of their own.
RECURSIVE Place(_, _)
Place(e, base) ==
    CASE e.k = "Call" ->
            Call(e.Name, [i \in 1..Len(e.Args) |-> Place(e.Args[i], base)], e.id + base)
      [] e.k = "BinaryExpr" -> BinaryExpr(e.Op, Place(e.LHS, base), Place(e.RHS, base))
      [] e.k = "ParenExpr" -> ParenExpr(Place(e.Expr, base))
      [] OTHER -> e

\* The field lists of at most MaxFields fields drawn from the pool.
FieldLists ==
    UNION {{[i \in 1..n |-> Field(Place(f[i], 2 * (i - 1)), "")] : f \in [1..n -> FieldPool]}
           : n \in 1..MaxFields}

InitValidate ==
    /\ pc = "fields"
    /\ input \in FieldLists
    /\ output = Idle
    /\ sql = Idle
    /\ docs = <<>>
    /\ heap = <<>>
    /\ stmts = EmptyMap
    /\ todo = {}
    /\ cur = NoCur
    /\ pm = EmptyMap
    /\ hist = NoHist

\* s.validate()
Validate ==
    /\ pc = "fields"
    /\ pc' = "validated"
    /\ output' = validate(input)
    /\ UNCHANGED <<sql, docs, heap, stmts, todo, cur, pm, hist, input>>

NextValidate == Validate

SpecValidate == InitValidate /\ [][NextValidate]_vars

\* The nodes of an expression, at any depth.
RECURSIVE Nodes(_)
Nodes(e) ==
    {e} \cup
    CASE e.k = "Call" -> UNION {Nodes(e.Args[i]) : i \in 1..Len(e.Args)}
      [] e.k = "BinaryExpr" -> Nodes(e.LHS) \cup Nodes(e.RHS)
      [] e.k = "ParenExpr" -> Nodes(e.Expr)
      [] OTHER -> {}

FieldNodes(fields) == UNION {Nodes(fields[i].Expr) : i \in 1..Len(fields)}
CallsOf(fields) == {n \in FieldNodes(fields) : n.k = "Call"}

\* The fields that are a Call and the fields that are a bare reference.
CallFields(fields) == {i \in 1..Len(fields) : fields[i].Expr.k = "Call"}
RefFields(fields) == {i \in 1..Len(fields) : fields[i].Expr.k = "VarRef"}
\* The field list mixes aggregate-call fields with bare references.
MixesCallsAndRefs(fields) ==
    /\ CallFields(fields) # {}
    /\ RefFields(fields) # {}
    /\ CallFields(fields) \cup RefFields(fields) = 1..Len(fields)
OnlySelectorCalls(fields) == \A c \in CallsOf(fields) : c.Name \in Selectors

\* C8: a field list that mixes aggregate-call fields with bare references
\* is rejected with the mixing error, unless all calls are selectors and
\* exactly one field holds a call, and then it is accepted.
C8_MixingRejected ==
    (pc = "validated" /\ MixesCallsAndRefs(input))
    => IF OnlySelectorCalls(input) /\ Cardinality(CallFields(input)) = 1
       THEN output = ""
       ELSE output = ErrMixing

\* What validateFields does instead: a list with a field that is a bare
\* reference is never accepted, one selector or not, and never reaches the
\* mixing check.
BareRefNeverAccepted ==
    (pc = "validated" /\ RefFields(input) # {}) => output \notin {"", ErrMixing}

\* The argument forms validation lets through.
HasVarRef(e) == \E n \in Nodes(e) : n.k = "VarRef"
HasCall(e) == \E n \in Nodes(e) : n.k = "Call"
ArgumentAllowed(c) ==
    /\ Len(c.Args) = 1
    /\ \/ c.Args[1].k = "VarRef"
       \/ /\ c.Name # "count"
          /\ c.Args[1].k = "BinaryExpr"
          /\ HasVarRef(c.Args[1])
          /\ ~HasCall(c.Args[1])

\* C9: in a field list that passes validation, every Call has exactly one
\* argument, which is a bare variable reference or, for a Call other than
\* count, a binary expression with at least one variable reference and no
\* Call; so no Call occurs in the arguments of a Call.
C9_CallArguments ==
    (pc = "validated" /\ output = "")
    => \A c \in CallsOf(input) : ArgumentAllowed(c)

\* C9 witness: a list with sum(x + y) and count(value) passed validation.
C9_Witness ==
    /\ pc = "validated"
    /\ output = ""
    /\ \E c \in CallsOf(input) : c.Name = "sum" /\ c.Args[1].k = "BinaryExpr"
    /\ \E c \in CallsOf(input) : c.Name = "count"

-----------------------------------------------------------------------------
(* The parser, on a text given as its sequence of tokens.  A result is     *)
(* [e, pos, n, err]: the node (or nodes), the position of the next token,  *)
(* the number of Calls emitted so far, and the error ("" is none).         *)

Parsed(e, pos, n) == [e |-> e, pos |-> pos, n |-> n, err |-> ""]
ParseFail(pos, n, msg) == [e |-> NilExpr, pos |-> pos, n |-> n, err |-> msg]
TokAt(toks, pos) == IF pos <= Len(toks) THEN toks[pos] ELSE Tok("EOF")

\* Token.Precedence: IN and NI are keywords of this table and have no case,
\* so their precedence is 0.
Precedence(op) ==
    CASE op = "OR" -> 1
      [] op = "AND" -> 2
      [] op \in {"EQ", "NEQ", "EQREGEX", "NEQREGEX", "LT", "LTE", "GT", "GTE"} -> 3
      [] op \in {"ADD", "SUB"} -> 4
      [] op \in {"MUL", "DIV"} -> 5
      [] OTHER -> 0

\* The Segments of a VarRef: its name split at the dots.
SegmentsOf(val) ==
    CASE val = "tcp.src_ip" -> <<"tcp", "src_ip">>
      [] val = "tcp.dst_ip" -> <<"tcp", "dst_ip">>
      [] val = "tcp.in_pkts" -> <<"tcp", "in_pkts">>
      [] OTHER -> <<val>>

\* The value of a NUMBER token: its decimal numeral as a float64.
NumberValue(t) ==
    IF t.neg THEN FNeg(Rat(t.digits, Pow10(t.frac)))
    ELSE Rat(t.digits, Pow10(t.frac))

\* The new operator added to the tree: descend the right spine to the last
\* BinaryExpr whose operator binds less tightly than op.
RECURSIVE InsertOperator(_, _, _)
InsertOperator(e, op, rhs) ==
    IF e.k # "BinaryExpr" \/ Precedence(e.Op) >= Precedence(op)
    THEN BinaryExpr(op, e, rhs)
    ELSE BinaryExpr(e.Op, e.LHS, InsertOperator(e.RHS, op, rhs))

\* The value of a literal token inside a list; Nil when it is no literal.
ListValue(t) ==
    CASE t.tok = "STRING" -> StrV(t.str)
      [] t.tok = "NUMBER" -> NumberValue(t)
      [] t.tok = "INTEGER" -> t.int
      [] OTHER -> Nil

RECURSIVE parseList(_, _, _, _)
parseList(toks, pos, n, vals) ==
    IF ListValue(TokAt(toks, pos)) = Nil THEN ParseFail(pos, n, "expected literal")
    ELSE IF TokAt(toks, pos + 1).tok = ","
    THEN parseList(toks, pos + 2, n, Append(vals, ListValue(TokAt(toks, pos))))
    ELSE IF TokAt(toks, pos + 1).tok = "]"
    THEN Parsed(ListLiteral(Append(vals, ListValue(TokAt(toks, pos)))), pos + 2, n)
    ELSE ParseFail(pos + 1, n, "expected ]")

RECURSIVE parseExpr(_, _, _)
RECURSIVE parseArgs(_, _, _, _)
RECURSIVE parseOperators(_, _, _, _)

\* ( expr ): r is the inner expression.
parseParen(toks, r) ==
    IF r.err # "" THEN r
    ELSE IF TokAt(toks, r.pos).tok = ")" THEN Parsed(ParenExpr(r.e), r.pos + 1, r.n)
    ELSE ParseFail(r.pos, r.n, "expected )")

\* name ( args ): a is the arguments; the Call is emitted after them.
parseCall(name, a) ==
    IF a.err # "" THEN a ELSE Parsed(Call(name, a.e, a.n + 1), a.pos, a.n + 1)

parseArgsNext(toks, args, r) ==
    IF r.err # "" THEN r
    ELSE IF TokAt(toks, r.pos).tok = ","
    THEN parseArgs(toks, r.pos + 1, r.n, Append(args, r.e))
    ELSE IF TokAt(toks, r.pos).tok = ")" THEN Parsed(Append(args, r.e), r.pos + 1, r.n)
    ELSE ParseFail(r.pos, r.n, "expected )")

parseArgs(toks, pos, n, args) ==
    IF args = <<>> /\ TokAt(toks, pos).tok = ")" THEN Parsed(<<>>, pos + 1, n)
    ELSE parseArgsNext(toks, args, parseExpr(toks, pos, n))

parseUnaryExpr(toks, pos, n) ==
    CASE TokAt(toks, pos).tok = "(" -> parseParen(toks, parseExpr(toks, pos + 1, n))
      [] TokAt(toks, pos).tok = "IDENT" ->
            IF TokAt(toks, pos + 1).tok = "("
            THEN parseCall(TokAt(toks, pos).lit, parseArgs(toks, pos + 2, n, <<>>))
            ELSE Parsed(VarRef(TokAt(toks, pos).lit, SegmentsOf(TokAt(toks, pos).lit)),
                        pos + 1, n)
      [] TokAt(toks, pos).tok = "STRING" ->
            Parsed(StringLiteral(TokAt(toks, pos).str), pos + 1, n)
      [] TokAt(toks, pos).tok = "INTEGER" ->
            Parsed(IntegerLiteral(TokAt(toks, pos).int), pos + 1, n)
      [] TokAt(toks, pos).tok = "NUMBER" ->
            Parsed(NumberLiteral(NumberValue(TokAt(toks, pos))), pos + 1, n)
      [] TokAt(toks, pos).tok \in {"TRUE", "FALSE"} ->
            Parsed(BooleanLiteral(TokAt(toks, pos).tok = "TRUE"), pos + 1, n)
      [] TokAt(toks, pos).tok = "REGEX" ->
            Parsed(RegexLiteral(TokAt(toks, pos).matches), pos + 1, n)
      [] TokAt(toks, pos).tok = "[" -> parseList(toks, pos + 1, n, <<>>)
      [] OTHER -> ParseFail(pos, n, "expected identifier, string, number, bool")

\* The operand r after the operator op joins the tree e.
parseOperand(toks, e, op, r) ==
    IF r.err # "" THEN r
    ELSE parseOperators(toks, InsertOperator(e, op, r.e), r.pos, r.n)

parseOperators(toks, e, pos, n) ==
    IF TokAt(toks, pos).tok \in ExprOps
    THEN parseOperand(toks, e, TokAt(toks, pos).tok, parseUnaryExpr(toks, pos + 1, n))
    ELSE Parsed(e, pos, n)

parseFirst(toks, r) ==
    IF r.err # "" THEN r ELSE parseOperators(toks, r.e, r.pos, r.n)

parseExpr(toks, pos, n) == parseFirst(toks, parseUnaryExpr(toks, pos, n))


\* fields: field {, field}; field: expr [AS IDENT].
RECURSIVE parseFields(_, _, _, _)
parseFieldsMore(toks, fields, pos, n) ==
    IF TokAt(toks, pos).tok = "," THEN parseFields(toks, pos + 1, n, fields)
    ELSE Parsed(fields, pos, n)

parseAlias(toks, fields, r) ==
    IF r.err # "" THEN r
    ELSE IF TokAt(toks, r.pos).tok = "AS"
    THEN IF TokAt(toks, r.pos + 1).tok = "IDENT"
         THEN parseFieldsMore(toks, Append(fields, Field(r.e, TokAt(toks, r.pos + 1).lit)),
                              r.pos + 2, r.n)
         ELSE ParseFail(r.pos + 1, r.n, "expected identifier")
    ELSE parseFieldsMore(toks, Append(fields, Field(r.e, "")), r.pos, r.n)

parseFields(toks, pos, n, fields) == parseAlias(toks, fields, parseExpr(toks, pos, n))

\* dimensions: var_ref {, var_ref}.
RECURSIVE parseDimensions(_, _, _, _)
parseDimensions(toks, pos, n, dims) ==
    IF TokAt(toks, pos).tok # "IDENT" THEN ParseFail(pos, n, "expected identifier")
    ELSE IF TokAt(toks, pos + 1).tok = ","
    THEN parseDimensions(toks, pos + 2, n,
             Append(dims, VarRef(TokAt(toks, pos).lit, SegmentsOf(TokAt(toks, pos).lit))))
    ELSE Parsed(Append(dims, VarRef(TokAt(toks, pos).lit, SegmentsOf(TokAt(toks, pos).lit))),
                pos + 1, n)

\* The statement once its clauses are parsed: EOF is required, then the
\* statement is validated.
parseEnd(toks, f, src, c, d) ==
    IF d.err # "" THEN [s |-> Idle, err |-> d.err]
    ELSE IF TokAt(toks, d.pos).tok # "EOF" THEN [s |-> Idle, err |-> "expected EOF"]
    ELSE [s |-> [Fields |-> f.e, Sources |-> src, Condition |-> c.e, Dimensions |-> d.e],
          err |-> ParseError([Fields |-> f.e, Condition |-> c.e])]

\* [GROUP BY dimensions]
parseGroupBy(toks, f, src, c) ==
    IF c.err # "" THEN [s |-> Idle, err |-> c.err]
    ELSE IF TokAt(toks, c.pos).tok = "GROUP" /\ TokAt(toks, c.pos + 1).tok = "BY"
    THEN parseEnd(toks, f, src, c, parseDimensions(toks, c.pos + 2, c.n, <<>>))
    ELSE parseEnd(toks, f, src, c, Parsed(<<>>, c.pos, c.n))

\* [WHERE expr]
parseCondition(toks, f, src, pos) ==
    IF TokAt(toks, pos).tok = "WHERE"
    THEN parseGroupBy(toks, f, src, parseExpr(toks, pos + 1, f.n))
    ELSE parseGroupBy(toks, f, src, Parsed(NilExpr, pos, f.n))

\* [FROM source]
parseSource(toks, f) ==
    IF f.err # "" THEN [s |-> Idle, err |-> f.err]
    ELSE IF TokAt(toks, f.pos).tok = "FROM"
    THEN IF TokAt(toks, f.pos + 1).tok = "IDENT"
         THEN parseCondition(toks, f, <<TokAt(toks, f.pos + 1).lit>>, f.pos + 2)
         ELSE [s |-> Idle, err |-> "expected identifier"]
    ELSE parseCondition(toks, f, <<>>, f.pos)

\* ParseStatement(text): [s |-> the statement, err |-> the error or ""].
parseSelectStatement(toks) ==
    IF TokAt(toks, 1).tok # "SELECT" THEN [s |-> Idle, err |-> "expected SELECT"]
    ELSE parseSource(toks, parseFields(toks, 2, 0, <<>>))


-----------------------------------------------------------------------------
(* Parse a text, print the statement, parse what was printed.              *)

CallText(name, arg) == <<IdentTok(name), Tok("("), IdentTok(arg), Tok(")")>>
Compare(name, op, lit) == <<IdentTok(name), Tok(op), lit>>

\* The texts of the field lists.
FieldTexts ==
    {CallText("sum", "x"),
     CallText("count", "x") \o <<Tok(",")>> \o CallText("sum", "x")
        \o <<Tok("ADD")>> \o CallText("sum", "y"),
     CallText("sum", "x") \o <<Tok("AS"), IdentTok("total")>>,
     CallText("sum", "x") \o <<Tok("MUL"), Tok("(")>> \o CallText("sum", "y")
        \o <<Tok("DIV")>> \o CallText("sum", "z") \o <<Tok(")")>>,
     <<IntegerTok(IntV(7))>>}

\* The texts of the WHERE clauses; <<>> is no clause.
ConditionTexts ==
    {<<>>}
    \cup {<<Tok("WHERE")>> \o c : c \in
          {Compare("x", "EQ", IntegerTok(IntV(1))),
           Compare("x", "GT", NumberTok(15, 1)),
           Compare("x", "GT", NumberTok(12341, 4)),
           Compare("tcp.src_ip", "EQ", StringTok("a", "'")),
           Compare("x", "EQ", Tok("TRUE")),
           Compare("x", "EQREGEX", RegexTok({"a"})),
           <<IdentTok("x"), Tok("IN"), Tok("["), StringTok("a", "'"), Tok(","),
             StringTok("b", "'"), Tok("]")>>,
           <<IdentTok("x"), Tok("IN"), Tok("["), NumberTok(15, 1), Tok(","),
             IntegerTok(IntV(2)), Tok("]")>>,
           Compare("x", "EQ", IntegerTok(IntV(1))) \o <<Tok("AND")>>
              \o Compare("y", "LT", NumberTok(225, 2)),
           Compare("x", "EQ", IntegerTok(IntV(1))) \o <<Tok("OR")>>
              \o Compare("y", "EQ", IntegerTok(IntV(2))) \o <<Tok("AND")>>
              \o Compare("z", "EQ", IntegerTok(IntV(3))),
           <<Tok("(")>> \o Compare("x", "EQ", IntegerTok(IntV(1))) \o <<Tok("OR")>>
              \o Compare("y", "EQ", IntegerTok(IntV(2))) \o <<Tok(")"), Tok("AND")>>
              \o Compare("z", "EQ", IntegerTok(IntV(3))),
           <<IdentTok("x"), Tok("ADD"), IntegerTok(IntV(1)), Tok("MUL"), IntegerTok(IntV(2)),
             Tok("GT"), IntegerTok(IntV(3))>>}}

\* The texts of the GROUP BY clauses; <<>> is no clause.
GroupByTexts ==
    {<<>>,
     <<Tok("GROUP"), Tok("BY"), IdentTok("tcp.src_ip")>>,
     <<Tok("GROUP"), Tok("BY"), IdentTok("tcp.src_ip"), Tok(","), IdentTok("tcp.dst_ip")>>}

Texts ==
    {<<Tok("SELECT")>> \o f \o <<Tok("FROM"), IdentTok("p")>> \o c \o g :
        f \in FieldTexts, c \in ConditionTexts, g \in GroupByTexts}

InitPrint ==
    /\ pc = "text"
    /\ input \in Texts
    /\ sql = Idle
    /\ heap = <<>>
    /\ output = Idle
    /\ stmts = EmptyMap
    /\ hist = [err |-> ""]
    /\ docs = <<>>
    /\ todo = {}
    /\ cur = NoCur
    /\ pm = EmptyMap

\* stmt, err := ParseStatement(text), with r its result.
ParsedText(r) ==
    IF r.err # ""
    THEN pc' = "rejected" /\ hist' = [hist EXCEPT !.err = r.err] /\ UNCHANGED <<sql, heap>>
    ELSE pc' = "parsed" /\ sql' = r.s /\ heap' = ParsedHeap(r.s) /\ UNCHANGED hist

ParseText ==
    /\ pc = "text"
    /\ ParsedText(parseSelectStatement(input))
    /\ UNCHANGED <<docs, stmts, todo, cur, pm, input, output>>

\* stmt.String()
PrintStatement ==
    /\ pc = "parsed"
    /\ pc' = "printed"
    /\ output' = SelectString(sql)
    /\ UNCHANGED <<sql, docs, heap, stmts, todo, cur, pm, hist, input>>

\* ParseStatement(stmt.String()), with r its result.
Reparsed(r) ==
    /\ stmts' = [x \in {"reparsed"} |-> r.s]
    /\ hist' = [hist EXCEPT !.err = r.err]

Reparse ==
    /\ pc = "printed"
    /\ pc' = "reparsed"
    /\ Reparsed(parseSelectStatement(output))
    /\ UNCHANGED <<sql, docs, heap, todo, cur, pm, input, output>>

NextPrint == ParseText \/ PrintStatement \/ Reparse

SpecPrint == InitPrint /\ [][NextPrint]_vars

\* C10: for every text that parses, the printed statement parses again, to a
\* statement equal to the first one (the Call nodes of both are numbered in
\* the order the parser emits them, so equality ignores accumulator state).
C10_PrintParseRoundTrip ==
    (pc = "reparsed") => (hist.err = "" /\ stmts["reparsed"] = sql)

-----------------------------------------------------------------------------
(* ParseExpr on a chain of operands joined by binary operators.            *)

\* Largest number of operators in a chain.
MaxOps == 3

\* The operand at position i of a chain: a list after IN and NI, a regex
\* after =~ and !~, the integer i otherwise.
OperandText(before, i) ==
    IF before \in {"IN", "NI"} THEN <<Tok("["), IntegerTok(IntV(i)), Tok("]")>>
    ELSE IF before \in {"EQREGEX", "NEQREGEX"} THEN <<RegexTok({"a"})>>
    ELSE <<IntegerTok(IntV(i))>>

\* The node ParseExpr builds for that operand.
OperandNode(before, i) ==
    IF before \in {"IN", "NI"} THEN ListLiteral(<<IntV(i)>>)
    ELSE IF before \in {"EQREGEX", "NEQREGEX"} THEN RegexLiteral({"a"})
    ELSE IntegerLiteral(IntV(i))

\* The text 1 op[1] 2 op[2] 3 ...
RECURSIVE ChainFrom(_, _)
ChainFrom(ops, i) ==
    IF i > Len(ops) THEN <<>>
    ELSE <<Tok(ops[i])>> \o OperandText(ops[i], i + 1) \o ChainFrom(ops, i + 1)

ChainText(ops) == <<IntegerTok(IntV(1))>> \o ChainFrom(ops, 1)

OpChains == UNION {[1..n -> ExprOps] : n \in 1..MaxOps}

InitParse ==
    /\ pc = "text"
    /\ hist \in {[ops |-> ops] : ops \in OpChains}
    /\ input = ChainText(hist.ops)
    /\ output = Idle
    /\ sql = Idle
    /\ heap = <<>>
    /\ docs = <<>>
    /\ stmts = EmptyMap
    /\ todo = {}
    /\ cur = NoCur
    /\ pm = EmptyMap

\* expr, err := ParseExpr(text)
ParseExprText ==
    /\ pc = "text"
    /\ pc' = "parsed"
    /\ output' = parseExpr(input, 1, 0)
    /\ UNCHANGED <<sql, docs, heap, stmts, todo, cur, pm, hist, input>>

NextParse == ParseExprText

SpecParse == InitParse /\ [][NextParse]_vars

\* The five binding levels the claim states, lowest first.
Level(op) ==
    CASE op = "OR" -> 1
      [] op = "AND" -> 2
      [] op \in {"EQ", "NEQ", "EQREGEX", "NEQREGEX", "LT", "LTE", "GT", "GTE",
                 "IN", "NI"} -> 3
      [] op \in {"ADD", "SUB"} -> 4
      [] op \in {"MUL", "DIV"} -> 5

\* The operators of a tree, left to right.
RECURSIVE OpsInOrder(_)
OpsInOrder(e) ==
    IF e.k = "BinaryExpr" THEN OpsInOrder(e.LHS) \o <<e.Op>> \o OpsInOrder(e.RHS)
    ELSE <<>>

\* The operands of a tree, left to right.
RECURSIVE LeavesInOrder(_)
LeavesInOrder(e) ==
    IF e.k = "BinaryExpr" THEN LeavesInOrder(e.LHS) \o LeavesInOrder(e.RHS)
    ELSE <<e>>

\* The operands of the chain ops, left to right.
ChainLeaves(ops) ==
    <<IntegerLiteral(IntV(1))>> \o [i \in 1..Len(ops) |-> OperandNode(ops[i], i + 1)]

\* Every operator's left subtree binds at least as tightly as the operator
\* and its right subtree binds more tightly: a lower level is never below a
\* higher one, and one level nests to the left.
RECURSIVE BindsByLevel(_)
BindsByLevel(e) ==
    e.k = "BinaryExpr"
    => /\ e.LHS.k = "BinaryExpr" => Level(e.LHS.Op) >= Level(e.Op)
       /\ e.RHS.k = "BinaryExpr" => Level(e.RHS.Op) > Level(e.Op)
       /\ BindsByLevel(e.LHS)
       /\ BindsByLevel(e.RHS)

I(i) == IntegerLiteral(IntV(i))

InBindsLoosest ==
    (pc = "parsed")
    => /\ output.err = ""
       /\ OpsInOrder(output.e) = hist.ops
       /\ LeavesInOrder(output.e) = ChainLeaves(hist.ops)
       /\ (\A i \in 1..Len(hist.ops) : hist.ops[i] \notin {"IN", "NI"})
          => BindsByLevel(output.e)
       /\ hist.ops = <<"OR", "MUL", "IN">>
          => output.e = BinaryExpr("IN",
                            BinaryExpr("OR", I(1), BinaryExpr("MUL", I(2), I(3))),
                            ListLiteral(<<IntV(4)>>))

-----------------------------------------------------------------------------
(* uid IN list and uid NI list, parsed and evaluated against a document.   *)

\* The texts of the lists.
ListTexts ==
    {<<Tok("["), IntegerTok(IntV(1)), Tok(","), IntegerTok(IntV(2)), Tok(","), IntegerTok(IntV(3)), Tok("]")>>,
     <<Tok("["), IntegerTok(IntV(4)), Tok("]")>>,
     <<Tok("["), NumberTok(15, 1), Tok(","), NumberTok(25, 1), Tok("]")>>,
     <<Tok("["), NumberTok(10, 1), Tok("]")>>,
     <<Tok("["), StringTok("a", "'"), Tok(","), StringTok("b", "'"), Tok("]")>>,
     <<Tok("["), IntegerTok(IntV(1)), Tok(","), StringTok("a", "'"), Tok(","),
       NumberTok(15, 1), Tok("]")>>}

InTexts == {<<IdentTok("uid"), Tok(op)>> \o l : op \in {"IN", "NI"}, l \in ListTexts}

\* The values of uid: JSON numbers, strings, a boolean, null, and absent.
UidValues ==
    {N(1), N(4), JNum(15, 1), JNum(25, 1), JStr("a"), JStr("c"),
     JBool(TRUE), JNull, JNotExist}

InitIn ==
    /\ pc = "text"
    /\ input \in InTexts
    /\ docs \in {<<Doc(u, N(1), N(1), N(1))>> : u \in UidValues}
    /\ sql = Idle
    /\ output = Idle
    /\ heap = <<>>
    /\ stmts = EmptyMap
    /\ todo = {}
    /\ cur = NoCur
    /\ pm = EmptyMap
    /\ hist = NoHist

\* expr, err := ParseExpr(text), with r its result.
ParsedCondition(r) ==
    IF r.err # "" THEN Raise(r.err) /\ UNCHANGED sql
    ELSE pc' = "parsed" /\ sql' = r.e /\ UNCHANGED hist

ParseCondition ==
    /\ pc = "text"
    /\ ParsedCondition(parseExpr(input, 1, 0))
    /\ UNCHANGED <<docs, heap, stmts, todo, cur, pm, input, output>>

\* Eval(expr, &doc)
EvalCondition ==
    /\ pc = "parsed"
    /\ pc' = "evaluated"
    /\ output' = Eval(sql, docs[1], heap).v
    /\ UNCHANGED <<sql, docs, heap, stmts, todo, cur, pm, hist, input>>

NextIn == ParseCondition \/ EvalCondition

SpecIn == InitIn /\ [][NextIn]_vars

\* The JSON value j equals the list element v: the same number, or the same
\* string.
SameValue(j, v) ==
    \/ j.j = "Number" /\ v.t = "float" /\ FEq(ParseFloat(j), v)
    \/ j.j = "Number" /\ v.t = "int" /\ FEq(ParseFloat(j), ToFloat(v))
    \/ j.j = "String" /\ v.t = "string" /\ j.str = v.s

\* The value of uid in the document equals an element of the list.
UidInList ==
    \E i \in 1..Len(sql.RHS.Vals) : SameValue(JGet(docs[1], <<"uid">>), sql.RHS.Vals[i])

\* C12: for a document whose uid is a number or a string, uid IN list is
\* true exactly when uid equals an element of the list, and uid NI list is
\* the negation; uid = 1 gives IN [1,2,3] true and NI [1,2,3] false.
C12_InIsMembership ==
    (pc = "evaluated" /\ JGet(docs[1], <<"uid">>).j \in {"Number", "String"})
    => output = BoolV(IF sql.Op = "IN" THEN UidInList ELSE ~UidInList)

-----------------------------------------------------------------------------
(* Eval of a predicate p, of p AND true and of p OR false.                 *)

InitIdentity ==
    /\ pc = "expr"
    /\ input \in {BinaryExpr(op, l, r) : op \in ExprOps, l \in Operands, r \in Operands}
    /\ docs = <<ExprDoc>>
    /\ hist = [p |-> Idle, conj |-> Idle, disj |-> Idle]
    /\ output = Idle
    /\ sql = Idle
    /\ heap = <<>>
    /\ stmts = EmptyMap
    /\ todo = {}
    /\ cur = NoCur
    /\ pm = EmptyMap

\* Eval(p, &doc)
EvalPredicate ==
    /\ pc = "expr"
    /\ pc' = "p"
    /\ hist' = [hist EXCEPT !.p = Eval(input, docs[1], heap).v]
    /\ UNCHANGED <<sql, docs, heap, stmts, todo, cur, pm, input, output>>

\* Eval(p AND true, &doc)
EvalAndTrue ==
    /\ pc = "p"
    /\ pc' = "conj"
    /\ hist' = [hist EXCEPT
                  !.conj = Eval(BinaryExpr("AND", input, BooleanLiteral(TRUE)),
                                docs[1], heap).v]
    /\ UNCHANGED <<sql, docs, heap, stmts, todo, cur, pm, input, output>>

\* Eval(p OR false, &doc)
EvalOrFalse ==
    /\ pc = "conj"
    /\ pc' = "disj"
    /\ hist' = [hist EXCEPT
                  !.disj = Eval(BinaryExpr("OR", input, BooleanLiteral(FALSE)),
                                docs[1], heap).v]
    /\ UNCHANGED <<sql, docs, heap, stmts, todo, cur, pm, input, output>>

NextIdentity == EvalPredicate \/ EvalAndTrue \/ EvalOrFalse

SpecIdentity == InitIdentity /\ [][NextIdentity]_vars

\* C13: when Eval(p, d) is a boolean, Eval(p AND true, d) and
\* Eval(p OR false, d) are that boolean.
C13_AndTrueOrFalse ==
    (pc = "disj" /\ hist.p.t = "bool")
    => (hist.conj = hist.p /\ hist.disj = hist.p)

\* C13 witness: a comparison that is false on the document, with p AND true
\* and p OR false evaluated to false.
C13_Witness ==
    /\ pc = "disj"
    /\ input = BinaryExpr("GT", X, IntegerLiteral(IntV(2)))
    /\ hist.p = BoolV(FALSE)
    /\ hist.conj = BoolV(FALSE)
    /\ hist.disj = BoolV(FALSE)

-----------------------------------------------------------------------------
(* FlatStatByGroup on a parsed statement with GROUP BY and WHERE, and Eval *)
(* of a partition's predicate against a document.                          *)

\* Largest number of documents in a batch handed to FlatStatByGroup.
MaxFlatDocs == 2

\* SELECT sum(x) FROM p WHERE uid > 1 GROUP BY tcp.src_ip
StmtGroupOne ==
    Select(<<Field(Call("sum", <<X>>, 1), "")>>,
           BinaryExpr("GT", Uid, IntegerLiteral(IntV(1))), <<SrcIp>>)

\* SELECT sum(x) FROM p WHERE uid IN [1, 2] GROUP BY tcp.src_ip
StmtGroupIn ==
    Select(<<Field(Call("sum", <<X>>, 1), "")>>,
           BinaryExpr("IN", Uid, ListLiteral(<<IntV(1), IntV(2)>>)), <<SrcIp>>)

\* The values of tcp.src_ip: leaves of every JSON type, the leaves that are
\* no dimension value (null, an object, an array), and absent.
SrcValues ==
    {N(1), JNum(12341, 4), JNum(12342, 4), JStr("a"), JBool(TRUE),
     JNull, JObj(EmptyMap), JArr, JNotExist}

\* The documents of the batches: FlatStatByGroup reads only the dimensions.
BatchPool == {Doc(N(1), N(1), s, d) : s \in SrcValues, d \in {N(1), JStr("a")}}

\* The documents a partition's predicate is evaluated against: uid makes the
\* WHERE predicate true, false or null.
FlatPool ==
    {Doc(u, N(1), s, d) :
        u \in {N(1), N(2), JNotExist}, s \in SrcValues, d \in {N(1), JStr("a")}}

InitFlat ==
    /\ pc = "parsed"
    /\ sql \in {StmtGroupWhere, StmtGroupOne, StmtGroupIn}
    /\ docs \in UNION {[1..n -> BatchPool] : n \in 1..MaxFlatDocs}
    /\ heap = ParsedHeap(sql)
    /\ stmts = EmptyMap
    /\ todo = {}
    /\ cur = NoCur
    /\ pm = EmptyMap
    /\ hist = NoHist
    /\ input = Idle
    /\ output = Idle

\* m := s.FlatStatByGroup(docs), with f its result.
FlatDone(f) ==
    IF f.panic # ""
    THEN Raise(f.panic) /\ UNCHANGED <<heap, stmts, todo>>
    ELSE /\ pc' = "flat"
         /\ heap' = f.h
         /\ stmts' = f.m
         /\ todo' = DOMAIN f.m
         /\ UNCHANGED hist

Flat ==
    /\ pc = "parsed"
    /\ FlatDone(FlatStatByGroup(sql, docs, heap))
    /\ UNCHANGED <<sql, docs, cur, pm, input, output>>

\* Eval(m[k].Condition, &d) for a partition key k and a document d.
EvalPartition ==
    /\ pc = "flat"
    /\ \E k \in todo, d \in FlatPool :
          /\ cur' = [k |-> k, i |-> 0]
          /\ input' = d
          /\ output' = Eval(stmts[k].Condition, d, heap).v
    /\ pc' = "evaluated"
    /\ UNCHANGED <<sql, docs, heap, stmts, todo, pm, hist>>

NextFlat == Flat \/ EvalPartition

SpecFlat == InitFlat /\ [][NextFlat]_vars

\* The value of dimension j of the statement in the document d.
DimValue(d, j) == evalVarRef(sql.Dimensions[j], d)

\* The document d carries no value for some dimension: the path is absent,
\* or leads to null, an object or an array.
LacksDimension(d) ==
    \E j \in 1..Len(sql.Dimensions) : DimValue(d, j) = Nil

\* C14: FlatStatByGroup over a batch in which a document lacks a dimension
\* (absent path, null, object or array) completes without raising.
C14_MissingDimensionCompletes ==
    (pc # "parsed" /\ \E i \in 1..Len(docs) : LacksDimension(docs[i]))
    => pc # "panic"

\* The literals a partition's predicate pins, in the order of the
\* dimensions: the predicate is true AND (v1 = dim1) AND ... AND w.
RECURSIVE PinnedChain(_)
PinnedChain(e) ==
    IF e.LHS = BooleanLiteral(TRUE) THEN <<e.RHS.LHS>>
    ELSE PinnedChain(e.LHS) \o <<e.RHS.LHS>>

\* The dimension expressions the predicate compares, in order.
RECURSIVE ComparedChain(_)
ComparedChain(e) ==
    IF e.LHS = BooleanLiteral(TRUE) THEN <<e.RHS.RHS>>
    ELSE ComparedChain(e.LHS) \o <<e.RHS.RHS>>

\* The predicate has the shape seed true, one equality per dimension in
\* order, w last.
RECURSIVE IsChain(_, _)
IsChain(e, n) ==
    /\ e.k = "BinaryExpr" /\ e.Op = "AND"
    /\ e.RHS.k = "BinaryExpr" /\ e.RHS.Op = "EQ"
    /\ IF n = 1 THEN e.LHS = BooleanLiteral(TRUE) ELSE IsChain(e.LHS, n - 1)

PartitionShape(e) ==
    /\ e.k = "BinaryExpr" /\ e.Op = "AND" /\ e.RHS = sql.Condition
    /\ IsChain(e.LHS, Len(sql.Dimensions))
    /\ ComparedChain(e.LHS) = sql.Dimensions

\* The value a literal node holds.
LiteralValue(l) ==
    CASE l.k = "StringLiteral" -> StrV(l.Val)
      [] l.k = "NumberLiteral" -> l.Val
      [] l.k = "BooleanLiteral" -> BoolV(l.Val)
      [] OTHER -> Nil

\* Every dimension of d evaluates to the value pinned by the predicate e.
MatchesPinned(d, e) ==
    \A j \in 1..Len(sql.Dimensions) :
        /\ DimValue(d, j) # Nil
        /\ DimValue(d, j) = LiteralValue(PinnedChain(e.LHS)[j])

\* The WHERE predicate of the statement is true on d.
WhereTrue(d) == Eval(sql.Condition, d, heap).v = BoolV(TRUE)

\* C19: the predicate stored under a partition key is seed true, one
\* equality per dimension in order and the WHERE predicate w last; its
\* printed form is the key; on a document d it is true exactly when w is
\* true on d and every dimension of d has the value pinned for the
\* partition, and boolean false otherwise.
C19_PartitionPredicate ==
    (pc = "evaluated")
    => /\ PartitionShape(stmts[cur.k].Condition)
       /\ String(stmts[cur.k].Condition) = cur.k
       /\ output = BoolV(WhereTrue(input) /\ MatchesPinned(input, stmts[cur.k].Condition))

\* C19 witness: under a partition that pins a string and a number, a
\* document with both values on which w is true evaluated to true.
C19_Witness ==
    /\ pc = "evaluated"
    /\ sql = StmtGroupWhere
    /\ PinnedChain(stmts[cur.k].Condition.LHS) = <<StringLiteral("a"), NumberLiteral(FloatV(1))>>
    /\ input = Doc(N(1), N(1), JStr("a"), N(1))
    /\ output = BoolV(TRUE)

\* C19 second witness: a document whose second dimension differs evaluated
\* to false.
C19_WitnessFalse ==
    /\ pc = "evaluated"
    /\ sql = StmtGroupWhere
    /\ PinnedChain(stmts[cur.k].Condition.LHS) = <<StringLiteral("a"), NumberLiteral(FloatV(1))>>
    /\ input = Doc(N(1), N(1), JStr("a"), JStr("a"))
    /\ output = BoolV(FALSE)

-----------------------------------------------------------------------------
(* NamesInSelect and NamesInWhere on a parsed statement.                   *)

\* walkNames on a Call: the arguments that are themselves a VarRef.
RECURSIVE ArgNames(_, _)
ArgNames(args, i) ==
    IF i > Len(args) THEN <<>>
    ELSE (IF args[i].k = "VarRef" THEN <<args[i].Val>> ELSE <<>>) \o ArgNames(args, i + 1)

RECURSIVE walkNames(_)
walkNames(e) ==
    CASE e.k = "VarRef" -> <<e.Val>>
      [] e.k = "Call" -> ArgNames(e.Args, 1)
      [] e.k = "BinaryExpr" -> walkNames(e.LHS) \o walkNames(e.RHS)
      [] e.k = "ParenExpr" -> walkNames(e.Expr)
      [] OTHER -> <<>>

RECURSIVE NamesFrom(_, _)
NamesFrom(fields, i) ==
    IF i > Len(fields) THEN <<>>
    ELSE walkNames(fields[i].Expr) \o NamesFrom(fields, i + 1)

NamesInSelect(s) == NamesFrom(s.Fields, 1)

NamesInWhere(s) == IF s.Condition # NilExpr THEN walkNames(s.Condition) ELSE <<>>

Ref(name) == VarRef(name, <<name>>)

\* WHERE predicates: none, one comparison, a name that occurs twice, a
\* nested one (time > 23 AND (asdf = 'jkl' OR (foo = 'bar' AND baz = 'bar'))),
\* and arithmetic inside a comparison.
Conditions ==
    {NilExpr, UidIs1,
     BinaryExpr("OR", BinaryExpr("EQ", X, IntegerLiteral(IntV(1))),
                      BinaryExpr("EQ", X, IntegerLiteral(IntV(2)))),
     BinaryExpr("AND", BinaryExpr("GT", Ref("time"), IntegerLiteral(IntV(23))),
        ParenExpr(BinaryExpr("OR", BinaryExpr("EQ", Ref("asdf"), StringLiteral("jkl")),
           ParenExpr(BinaryExpr("AND", BinaryExpr("EQ", Ref("foo"), StringLiteral("bar")),
                                       BinaryExpr("EQ", Ref("baz"), StringLiteral("bar"))))))),
     BinaryExpr("GT", BinaryExpr("ADD", X, ParenExpr(BinaryExpr("MUL", Y, X))),
                      IntegerLiteral(IntV(3)))}

\* The statements ParseStatement returns for the field lists and predicates.
NamedStatements ==
    {s \in {Select(f, c, <<>>) : f \in FieldLists, c \in Conditions} : ParseError(s) = ""}

InitNames ==
    /\ pc = "parsed"
    /\ sql \in NamedStatements
    /\ output = Idle
    /\ input = Idle
    /\ docs = <<>>
    /\ heap = <<>>
    /\ stmts = EmptyMap
    /\ todo = {}
    /\ cur = NoCur
    /\ pm = EmptyMap
    /\ hist = NoHist

\* s.NamesInSelect()
CallNamesInSelect ==
    /\ pc = "parsed"
    /\ pc' = "select"
    /\ output' = NamesInSelect(sql)
    /\ UNCHANGED <<sql, docs, heap, stmts, todo, cur, pm, hist, input>>

\* s.NamesInWhere()
CallNamesInWhere ==
    /\ pc = "parsed"
    /\ pc' = "where"
    /\ output' = NamesInWhere(sql)
    /\ UNCHANGED <<sql, docs, heap, stmts, todo, cur, pm, hist, input>>

NextNames == CallNamesInSelect \/ CallNamesInWhere

SpecNames == InitNames /\ [][NextNames]_vars

\* The names of all variable references of an expression, left to right.
RECURSIVE RefNames(_)
RECURSIVE RefNamesOfArgs(_, _)
RefNamesOfArgs(args, i) ==
    IF i > Len(args) THEN <<>> ELSE RefNames(args[i]) \o RefNamesOfArgs(args, i + 1)

RefNames(e) ==
    CASE e.k = "VarRef" -> <<e.Val>>
      [] e.k = "Call" -> RefNamesOfArgs(e.Args, 1)
      [] e.k = "BinaryExpr" -> RefNames(e.LHS) \o RefNames(e.RHS)
      [] e.k = "ParenExpr" -> RefNames(e.Expr)
      [] OTHER -> <<>>

RECURSIVE RefNamesOfFields(_, _)
RefNamesOfFields(fields, i) ==
    IF i > Len(fields) THEN <<>>
    ELSE RefNames(fields[i].Expr) \o RefNamesOfFields(fields, i + 1)

\* C15: NamesInSelect returns the names of all variable references of the
\* field list and NamesInWhere those of the WHERE predicate, left to right
\* with duplicates, including references inside parentheses and inside the
\* binary-expression argument of a call such as sum(a + b).
C15_NamesOfAllReferences ==
    /\ pc = "select" => output = RefNamesOfFields(sql.Fields, 1)
    /\ pc = "where" => output = RefNames(sql.Condition)

\* NamesInWhere alone: all references of the predicate, in order.
NamesInWhereComplete == pc = "where" => output = RefNames(sql.Condition)

\* NamesInSelect on field lists whose call arguments are bare references.
NamesInSelectBareArguments ==
    (pc = "select" /\ \A c \in CallsOf(sql.Fields) : \A i \in 1..Len(c.Args) : c.Args[i].k = "VarRef")
    => output = RefNamesOfFields(sql.Fields, 1)

-----------------------------------------------------------------------------
(* Accumulation of matching documents into a parsed statement, and its     *)
(* finalization.                                                           *)

Z == VarRef("z", <<"z">>)

\* SELECT sum(x) * (sum(y) / sum(z)) FROM p WHERE uid = 1
StmtParenSums ==
    Select(<<Field(BinaryExpr("MUL", Call("sum", <<X>>, 1),
                     ParenExpr(BinaryExpr("DIV", Call("sum", <<Y>>, 2),
                                                 Call("sum", <<Z>>, 3)))), "")>>,
           UidIs1, <<>>)

\* SELECT sum(x) + sum(y), sum(z) FROM p WHERE uid = 1
StmtPlainSums ==
    Select(<<Field(BinaryExpr("ADD", Call("sum", <<X>>, 1), Call("sum", <<Y>>, 2)), ""),
             Field(Call("sum", <<Z>>, 3), "")>>,
           UidIs1, <<>>)

\* SELECT first(x), last(x) FROM p WHERE uid = 1
StmtFirstLast ==
    Select(<<Field(Call("first", <<X>>, 1), ""), Field(Call("last", <<X>>, 2), "")>>,
           UidIs1, <<>>)

AccStatements == {StmtParenSums, StmtPlainSums, StmtFirstLast, StmtAgg}

\* A document {"uid": .., "x": .., "y": .., "z": ..}.
DocXYZ(uid, x, y, z) == JObj(Members([uid |-> uid, x |-> x, y |-> y, z |-> z]))

\* Matching documents whose x is a number, a string, a boolean, null or
\* absent, and one document that does not match.
AccPool ==
    {DocXYZ(N(1), x, N(3), N(2)) :
        x \in {N(-1), N(2), JNum(5, 1), JStr("a"), JBool(TRUE), JNull, JNotExist}}
    \cup {DocXYZ(N(1), N(-3), N(1), N(4)), DocXYZ(N(2), N(5), N(1), N(1))}

\* hist.prev is the heap before the last document, hist.last that document,
\* docs the matching documents accumulated so far.
InitAccumulate ==
    /\ pc = "parsed"
    /\ sql \in AccStatements
    /\ ParseError(sql) = ""
    /\ heap = ParsedHeap(sql)
    /\ docs = <<>>
    /\ hist = [prev |-> heap, last |-> Idle]
    /\ input = Idle
    /\ output = Idle
    /\ stmts = EmptyMap
    /\ todo = {}
    /\ cur = NoCur
    /\ pm = EmptyMap

\* The document d matched: st.evalFunctionCalls(&d), with r its result.
Matching(d, r) ==
    /\ ~IsPanic(r.v)
    /\ heap' = r.h
    /\ docs' = Append(docs, d)
    /\ hist' = [prev |-> heap, last |-> d]
    /\ pc' = "accumulated"

\* One round of the driver's loop over the documents, with res the value of
\* the WHERE predicate.
DocumentStep(d, res) ==
    IF res.v = BoolV(TRUE)
    THEN Matching(d, evalFunctionCalls(sql, d, res.h))
    ELSE pc' = "skipped" /\ UNCHANGED <<heap, docs, hist>>

AccumulateDocument ==
    /\ pc \in {"parsed", "accumulated", "skipped"}
    /\ Len(docs) < MaxDocs
    /\ \E d \in AccPool : DocumentStep(d, Eval(sql.Condition, d, heap))
    /\ UNCHANGED <<sql, stmts, todo, cur, pm, input, output>>

\* ms := st.evalMetric(), with ms its result.
Finalized(ms) ==
    /\ ms.panic = ""
    /\ heap' = ms.h
    /\ output' = ms.ps

Finalize ==
    /\ pc \in {"parsed", "accumulated", "skipped"}
    /\ Finalized(evalMetric(sql, heap))
    /\ pc' = "emitted"
    /\ UNCHANGED <<sql, docs, stmts, todo, cur, pm, hist, input>>

NextAccumulate == AccumulateDocument \/ Finalize

SpecAccumulate == InitAccumulate /\ [][NextAccumulate]_vars

\* The value of the argument of the Call c in the document d.
ArgValue(c, d) == Eval(c.Args[1], d, heap).v
NumericArg(c, d) == ArgValue(c, d).t \in {"int", "float"}

\* The sum of the argument of c over the documents ds.
RECURSIVE ArgSum(_, _)
ArgSum(c, ds) ==
    IF ds = <<>> THEN FloatV(0)
    ELSE FAdd(ArgSum(c, SubSeq(ds, 1, Len(ds) - 1)),
              ArgAsFloat(ArgValue(c, ds[Len(ds)])))

\* C16: accumulation updates every Call of the field expressions, the Calls
\* inside parentheses included: once the matching documents docs (numeric
\* x, y and z) are accumulated, every sum of the statement has counted each
\* of them and holds the sum of its argument over them.
C16_EveryCallAdvances ==
    (/\ pc = "accumulated"
     /\ sql \in {StmtParenSums, StmtPlainSums}
     /\ \A c \in CallsOf(sql.Fields) : \A i \in 1..Len(docs) : NumericArg(c, docs[i]))
    => \A c \in CallsOf(sql.Fields) :
          /\ heap[c.id].Count = Len(docs)
          /\ heap[c.id].result = ArgSum(c, docs)

\* Without parentheses every Call advances.
PlainCallsAdvance ==
    (/\ pc = "accumulated"
     /\ sql = StmtPlainSums
     /\ \A c \in CallsOf(sql.Fields) : \A i \in 1..Len(docs) : NumericArg(c, docs[i]))
    => \A c \in CallsOf(sql.Fields) :
          /\ heap[c.id].Count = Len(docs)
          /\ heap[c.id].result = ArgSum(c, docs)

\* The Calls of the statement that are numeric aggregates.
NumericAggregates == {c \in CallsOf(sql.Fields) : c.Name \in {"sum", "avg", "max", "min"}}

\* C17: a matching document whose aggregate argument is no number (absent,
\* null, a string or a boolean) leaves result, Count and First of every sum,
\* avg, max and min Call as they were.
C17_NonNumericSkipsUpdate ==
    (pc = "accumulated")
    => \A c \in NumericAggregates :
          ~NumericArg(c, hist.last) => heap[c.id] = hist.prev[c.id]

\* The part of it that holds: result of sum and avg is left as it was.
NonNumericKeepsSum ==
    (pc = "accumulated")
    => \A c \in NumericAggregates :
          (c.Name \in {"sum", "avg"} /\ ~NumericArg(c, hist.last))
          => heap[c.id].result = hist.prev[c.id].result

\* The value of x in the document d, as a float.
XValue(d) == ArgAsFloat(evalVarRef(X, d))

\* C18: once the matching documents d1..dn (n >= 1, x a number in each) are
\* accumulated, finalizing first(x) returns x of d1 and finalizing last(x)
\* returns x of dn.
C18_FirstAndLast ==
    (/\ pc = "emitted"
     /\ sql = StmtFirstLast
     /\ Len(docs) >= 1
     /\ \A i \in 1..Len(docs) : evalVarRef(X, docs[i]).t = "float")
    => /\ output[1] = XValue(docs[1])
       /\ output[2] = XValue(docs[Len(docs)])

\* What first and last finalize to: the result no update has touched.
FirstAndLastStayZero ==
    (pc = "emitted" /\ sql = StmtFirstLast) => output = <<FloatV(0), FloatV(0)>>

-----------------------------------------------------------------------------
(* AND and OR on operands that are not both boolean (under SpecExpr).      *)

\* C20: AND and OR with at least one operand that evaluates to a
\* non-boolean value give null: 4 AND 5, true AND 5 and false OR 'x' are
\* null.
C20_NonBooleanGivesNull ==
    (/\ pc = "evaluated"
     /\ input.Op \in {"AND", "OR"}
     /\ (OperandValue(input.LHS).t # "bool" \/ OperandValue(input.RHS).t # "bool"))
    => output = Nil

\* What the evaluator gives: null when the left operand is no boolean, and
\* the boolean false when the left operand is a boolean and the right one
\* is not.
NonBooleanByLeftOperand ==
    (/\ pc = "evaluated"
     /\ input.Op \in {"AND", "OR"}
     /\ (OperandValue(input.LHS).t # "bool" \/ OperandValue(input.RHS).t # "bool"))
    => output = IF OperandValue(input.LHS).t = "bool" THEN BoolV(FALSE) ELSE Nil

-----------------------------------------------------------------------------
(* Comparators on operands of incompatible run-time types.                 *)

EqualityOps == {"EQ", "NEQ"}
OrderingOps == {"LT", "LTE", "GT", "GTE"}

\* The class of a run-time value: integers and floats are both numbers.
TypeClass(v) == IF IsNumber(v) THEN "number" ELSE v.t

\* Two values of the classes number, string and boolean, of different class.
Incompatible(l, r) ==
    /\ TypeClass(l) \in {"number", "string", "bool"}
    /\ TypeClass(r) \in {"number", "string", "bool"}
    /\ TypeClass(l) # TypeClass(r)

\* C21: a comparator on operands of incompatible run-time types yields false
\* for EQ and NEQ and null for LT, LTE, GT and GTE, whichever operand is on
\* the left.
C21_IncompatibleComparison ==
    (/\ pc = "evaluated"
     /\ input.Op \in EqualityOps \cup OrderingOps
     /\ Incompatible(OperandValue(input.LHS), OperandValue(input.RHS)))
    => output = IF input.Op \in EqualityOps THEN BoolV(FALSE) ELSE Nil

\* What the dispatch does: equality is false; ordering is false when the
\* left operand is a number and null when it is a string or a boolean.
IncompatibleByLeftOperand ==
    (/\ pc = "evaluated"
     /\ input.Op \in EqualityOps \cup OrderingOps
     /\ Incompatible(OperandValue(input.LHS), OperandValue(input.RHS)))
    => output = IF input.Op \in EqualityOps \/ IsNumber(OperandValue(input.LHS))
                THEN BoolV(FALSE) ELSE Nil

-----------------------------------------------------------------------------
(* Integers and floats in binary arithmetic and comparison.                *)

ArithmeticOps == {"ADD", "SUB", "MUL", "DIV"}

\* The operation on two floats, the right one not zero under DIV.
OnFloats(op, a, b) ==
    CASE op = "EQ"  -> BoolV(FEq(a, b))
      [] op = "NEQ" -> BoolV(~FEq(a, b))
      [] op = "LT"  -> BoolV(FLt(a, b))
      [] op = "LTE" -> BoolV(FLe(a, b))
      [] op = "GT"  -> BoolV(FLt(b, a))
      [] op = "GTE" -> BoolV(FLe(b, a))
      [] op = "ADD" -> FAdd(a, b)
      [] op = "SUB" -> FSub(a, b)
      [] op = "MUL" -> FMul(a, b)
      [] op = "DIV" -> FDiv(a, b)

\* The arithmetic operation on two integers, the right one not zero under DIV.
OnInts(op, a, b) ==
    CASE op = "ADD" -> IntAdd(a, b)
      [] op = "SUB" -> IntSub(a, b)
      [] op = "MUL" -> IntMul(a, b)
      [] op = "DIV" -> IntQuot(a, b)

\* A number as a float: an integer becomes the float64 nearest to it.
AsFloat(v) ==
    IF v.t # "int" THEN v
    ELSE IF v.mag = <<>> THEN FloatV(0)
    ELSE FRound(IF v.neg THEN 1 ELSE 0, v.mag, 0)

MixedOperands(l, r) ==
    (l.t = "float" /\ r.t = "int") \/ (l.t = "int" /\ r.t = "float")

\* C22: with one float and one integer operand the integer is coerced to
\* float before an arithmetic or comparison operation, on either side; with
\* two integer operands ADD, SUB, MUL and DIV by a non-zero divisor yield an
\* integer.
C22_IntFloatCoercion ==
    (/\ pc = "evaluated"
     /\ input.Op \in ArithmeticOps \cup EqualityOps \cup OrderingOps
     /\ IsNumber(OperandValue(input.LHS))
     /\ IsNumber(OperandValue(input.RHS))
     /\ ~(input.Op = "DIV" /\ IsZero(OperandValue(input.RHS))))
    => /\ MixedOperands(OperandValue(input.LHS), OperandValue(input.RHS))
          => output = OnFloats(input.Op, AsFloat(OperandValue(input.LHS)),
                               AsFloat(OperandValue(input.RHS)))
       /\ (/\ OperandValue(input.LHS).t = "int"
           /\ OperandValue(input.RHS).t = "int"
           /\ input.Op \in ArithmeticOps)
          => output = OnInts(input.Op, OperandValue(input.LHS),
                             OperandValue(input.RHS))

\* 2 + 0.5 has been evaluated to the float 2.5.
C22_Witness ==
    /\ pc = "evaluated"
    /\ input = BinaryExpr("ADD", IntegerLiteral(IntV(2)), NumberLiteral(Rat(1, 2)))
    /\ output = Rat(5, 2)

\* 0.0 = 0 and -1 / 2 have been evaluated: true, and the integer 0.
C22_WitnessEqual ==
    /\ pc = "evaluated"
    /\ \/ /\ input = BinaryExpr("EQ", NumberLiteral(FloatV(0)), IntegerLiteral(IntV(0)))
          /\ output = BoolV(TRUE)
       \/ /\ input = BinaryExpr("DIV", IntegerLiteral(IntV(-1)), IntegerLiteral(IntV(2)))
          /\ output = IntV(0)

-----------------------------------------------------------------------------
(* Eval of a variable reference against one document.                      *)

\* What a member of the document can be: numbers written without and with a
\* fractional part, a string, a boolean, null, an object, an array, absent.
LeafValues ==
    {N(1), N(-2), JNum(10, 1), JNum(15, 1), JStr("a"), JBool(TRUE), JNull,
     JObj(<<>>), JArr, JNotExist}

\* References to a member, a nested member, an object and an absent member.
Tcp == VarRef("tcp", <<"tcp">>)
Refs == {X, SrcIp, Tcp, Y}

InitRef ==
    /\ pc = "expr"
    /\ input \in Refs
    /\ docs \in {<<Doc(N(1), x, src, N(1))>> : x \in LeafValues, src \in LeafValues}
    /\ output = Idle
    /\ sql = Idle
    /\ heap = <<>>
    /\ stmts = EmptyMap
    /\ todo = {}
    /\ cur = NoCur
    /\ pm = EmptyMap
    /\ hist = NoHist

SpecRef == InitRef /\ [][NextExpr]_vars

\* The member of the document the reference input names.
Reached == JGet(docs[1], input.Segments)

\* C23: a VarRef that reaches a JSON number yields an integer when the
\* number's text has no fractional part and a float otherwise; a string or a
\* boolean passes through; an absent path, an object or an array yields null.
C23_VarRefValue ==
    pc = "evaluated" =>
        output = CASE Reached.j = "Number" ->
                        IF Reached.frac = 0 THEN IntV(Reached.digits)
                        ELSE Rat(Reached.digits, Pow10(Reached.frac))
                   [] Reached.j = "String" -> StrV(Reached.str)
                   [] Reached.j = "Boolean" -> BoolV(Reached.bool)
                   [] OTHER -> Nil

\* What Eval does: every JSON number becomes a float, whatever its text.
NumberIsAlwaysFloat ==
    pc = "evaluated" =>
        output = CASE Reached.j = "Number" ->
                        Rat(Reached.digits, Pow10(Reached.frac))
                   [] Reached.j = "String" -> StrV(Reached.str)
                   [] Reached.j = "Boolean" -> BoolV(Reached.bool)
                   [] OTHER -> Nil

-----------------------------------------------------------------------------
(* Documents the driver skips.                                             *)

\* The driver stands before document cur.i of the statement under key cur.k.
AtDocument == pc = "loop" /\ cur # NoCur /\ cur.i <= Len(docs)

\* The step from a document whose predicate value v is not the boolean true:
\* no accumulator changes, nothing is returned yet, one warning exactly when
\* v is no boolean, and the driver stands before the next document.
SkipStep(v) ==
    (~IsPanic(v) /\ v # BoolV(TRUE))
    => /\ heap' = heap
       /\ pm' = pm
       /\ pc' = "loop"
       /\ cur' = [k |-> cur.k, i |-> cur.i + 1]
       /\ hist'.skipped = hist.skipped + (IF v.t = "bool" THEN 0 ELSE 1)
       /\ hist'.panic = ""

\* C24: a document for which the partition's predicate evaluates to null or
\* to false is skipped: no accumulator changes for it, at most a warning is
\* emitted, and the driver goes on with the next document.
C24_SkipsNonMatching ==
    [][AtDocument => SkipStep(Eval(stmts[cur.k].Condition, docs[cur.i], heap).v)]_vars

\* A batch of three has been evaluated under WHERE uid = 1: one document
\* without uid (null, a warning), one with another uid (false) and one that
\* matched and is the only one counted.
C24_Witness ==
    /\ pc = "done"
    /\ sql = StmtAgg
    /\ Len(docs) = 3
    /\ hist.skipped = 1
    /\ Len(Matched) = 1
    /\ \E i \in 1..3 : JGet(docs[i], <<"uid">>) = N(2)
    /\ pm[String(UidIs1)][3] = FloatV(1)

-----------------------------------------------------------------------------
(* Calls and bare references in one field expression.                      *)

\* The nodes of an expression that lie under no Call.
RECURSIVE BareNodes(_)
BareNodes(e) ==
    {e} \cup
    CASE e.k = "BinaryExpr" -> BareNodes(e.LHS) \cup BareNodes(e.RHS)
      [] e.k = "ParenExpr" -> BareNodes(e.Expr)
      [] OTHER -> {}

\* The expression holds a Call and a variable reference outside every Call.
MixesCallAndBareRef(e) ==
    /\ \E n \in BareNodes(e) : n.k = "Call"
    /\ \E n \in BareNodes(e) : n.k = "VarRef"

\* C25: no field list that passes validation has a field whose expression
\* mixes a Call and a bare variable reference, also when the binary
\* expression is wrapped in parentheses as in SELECT (sum(x) + y) FROM foo.
C25_NoMixedFieldPasses ==
    (pc = "validated" /\ output = "")
    => \A i \in 1..Len(input) : ~MixesCallAndBareRef(input[i].Expr)

\* What validateFields does: a field that is a binary expression is checked
\* for mixing at any depth, a field that is a parenthesis is not checked.
MixedFieldPassesOnlyInParentheses ==
    (pc = "validated" /\ output = "")
    => \A i \in 1..Len(input) :
          MixesCallAndBareRef(input[i].Expr) => input[i].Expr.k = "ParenExpr"

-----------------------------------------------------------------------------
(* ColumnNames: the names of the columns of a field list.                  *)

\* Largest number of fields of a field list handed to ColumnNames.
MaxColumns == 3

\* Walk with a binaryExprNameVisitor: the names of the references and of the
\* Calls, whose arguments are not visited, in order.
RECURSIVE walkBinaryNames(_)
walkBinaryNames(n) ==
    CASE n.k = "VarRef" -> <<n.Val>>
      [] n.k = "Call" -> <<n.Name>>
      [] n.k = "BinaryExpr" -> walkBinaryNames(n.LHS) \o walkBinaryNames(n.RHS)
      [] n.k = "ParenExpr" -> walkBinaryNames(n.Expr)
      [] OTHER -> <<>>

\* strings.Join(names, "_")
RECURSIVE JoinNames(_)
JoinNames(names) ==
    IF names = <<>> THEN ""
    ELSE IF Len(names) = 1 THEN names[1]
    ELSE names[1] \o "_" \o JoinNames(Tail(names))

BinaryExprName(expr) == JoinNames(walkBinaryNames(expr))

\* Field.Name of a field without alias.
RECURSIVE ExprName(_)
ExprName(expr) ==
    CASE expr.k = "Call" -> expr.Name
      [] expr.k = "BinaryExpr" -> BinaryExprName(expr)
      [] expr.k = "ParenExpr" -> ExprName(expr.Expr)
      [] expr.k = "VarRef" -> expr.Val
      [] OTHER -> ""

\* Field.Name
FieldName(f) == IF f.Alias # "" THEN f.Alias ELSE ExprName(f.Expr)

\* fmt.Sprintf("%s_%d", name, count)
Suffixed(name, count) == name \o "_" \o ToString(count)

\* names[name] = count on the map names.
PutName(names, name, count) ==
    [x \in DOMAIN names \cup {name} |-> IF x = name THEN count ELSE names[x]]

\* names[name]++ on the map names: a missing key counts as 0.
IncName(names, name) ==
    PutName(names, name, IF name \in DOMAIN names THEN names[name] + 1 ELSE 1)

\* The first loop of ColumnNames: aliases are resolved first.
RECURSIVE resolveAliases(_, _, _)
resolveAliases(fields, i, st) ==
    IF i > Len(fields) THEN st
    ELSE resolveAliases(fields, i + 1,
            IF fields[i].Alias # ""
            THEN [columnNames |-> [st.columnNames EXCEPT ![i] = fields[i].Alias],
                  names |-> PutName(st.names, fields[i].Alias, 1)]
            ELSE st)

\* The inner loop of ColumnNames: the first count whose suffixed name is free.
RECURSIVE firstFree(_, _, _)
firstFree(name, count, names) ==
    IF Suffixed(name, count) \notin DOMAIN names THEN count
    ELSE firstFree(name, count + 1, names)

\* The conflict branch once the free count is found.
resolveConflict(st, i, name, count) ==
    [columnNames |-> [st.columnNames EXCEPT ![i] = Suffixed(name, count)],
     names |-> IncName(PutName(st.names, name, count + 1), Suffixed(name, count))]

\* One generated name of the second loop.
resolveName(st, i, name) ==
    IF name \in DOMAIN st.names
    THEN resolveConflict(st, i, name, firstFree(name, st.names[name], st.names))
    ELSE [columnNames |-> [st.columnNames EXCEPT ![i] = name],
          names |-> IncName(st.names, name)]

\* The second loop of ColumnNames: generated names, conflicts resolved.
RECURSIVE resolveNames(_, _, _)
resolveNames(fields, i, st) ==
    IF i > Len(fields) THEN st
    ELSE resolveNames(fields, i + 1,
            IF st.columnNames[i] # "" THEN st
            ELSE resolveName(st, i, FieldName(fields[i])))

ColumnNames(fields) ==
    resolveNames(fields, 1,
        resolveAliases(fields, 1,
            [columnNames |-> [i \in 1..Len(fields) |-> ""],
             names |-> [x \in {} |-> 0]])).columnNames

\* Field expressions named value, value_1, sum, value (a binary expression
\* with one reference) and the empty name; aliases none, value and value_1.
ColumnExprs ==
    {Value, VarRef("value_1", <<"value_1">>), Call("sum", <<Value>>, 1),
     BinaryExpr("ADD", Value, IntegerLiteral(IntV(1))), IntegerLiteral(IntV(7))}
ColumnAliases == {"", "value", "value_1"}
ColumnFields == {Field(e, a) : e \in ColumnExprs, a \in ColumnAliases}
ColumnLists == UNION {[1..n -> ColumnFields] : n \in 1..MaxColumns}

InitColumns ==
    /\ pc = "columns"
    /\ input \in ColumnLists
    /\ output = Idle
    /\ sql = Idle
    /\ docs = <<>>
    /\ heap = <<>>
    /\ stmts = EmptyMap
    /\ todo = {}
    /\ cur = NoCur
    /\ pm = EmptyMap
    /\ hist = NoHist

\* s.ColumnNames()
CallColumnNames ==
    /\ pc = "columns"
    /\ pc' = "named"
    /\ output' = ColumnNames(input)
    /\ UNCHANGED <<sql, docs, heap, stmts, todo, cur, pm, hist, input>>

NextColumns == CallColumnNames

SpecColumns == InitColumns /\ [][NextColumns]_vars

\* The names taken when field i gets its name: every alias, and the names
\* given to the fields without alias before i.
Aliases == {input[j].Alias : j \in 1..Len(input)} \ {""}
TakenAt(i) == Aliases \cup {output[j] : j \in {x \in 1..(i - 1) : input[x].Alias = ""}}

\* Field i got the name of its expression when that was free, and else the
\* name with the first free number k = 1, 2, ... as suffix.
GeneratedName(i) ==
    IF ExprName(input[i].Expr) \notin TakenAt(i)
    THEN output[i] = ExprName(input[i].Expr)
    ELSE \E k \in 1..(Len(input) + 1) :
            /\ output[i] = Suffixed(ExprName(input[i].Expr), k)
            /\ output[i] \notin TakenAt(i)
            /\ \A m \in 1..(k - 1) :
                  Suffixed(ExprName(input[i].Expr), m) \in TakenAt(i)

OneNamePerField ==
    /\ Len(output) = Len(input)
    /\ \A i \in 1..Len(input) :
          IF input[i].Alias # "" THEN output[i] = input[i].Alias
          ELSE GeneratedName(i)

PairwiseDistinct(names) ==
    \A i, j \in 1..Len(names) : i # j => names[i] # names[j]

\* C26: ColumnNames returns one name per field in field order, an aliased
\* field keeps its alias, an unaliased field whose name is taken gets the
\* suffix _1, _2, ... with the first free number, and the returned names are
\* pairwise distinct for every field list.
C26_ColumnNamesDistinct ==
    pc = "named" => OneNamePerField /\ PairwiseDistinct(output)

\* What ColumnNames does: the names are as described, and they are pairwise
\* distinct when no alias is given twice.
ColumnNamesDistinctAliases ==
    pc = "named" =>
        /\ OneNamePerField
        /\ (\A i, j \in 1..Len(input) :
               (i # j /\ input[i].Alias # "") => input[i].Alias # input[j].Alias)
           => PairwiseDistinct(output)

\* The lists of TestSelect_ColumnNames give the names the test expects.
ColumnNamesOfTest ==
    /\ ColumnNames(<<Field(Value, ""), Field(Value, ""),
                     Field(VarRef("value_1", <<"value_1">>), "")>>)
       = <<"value", "value_1", "value_1_1">>
    /\ ColumnNames(<<Field(Value, ""), Field(VarRef("value_1", <<"value_1">>), ""),
                     Field(Value, "")>>)
       = <<"value", "value_1", "value_2">>
    /\ ColumnNames(<<Field(Value, ""), Field(VarRef("total", <<"total">>), "value"),
                     Field(Value, "")>>)
       = <<"value_1", "value", "value_2">>

-----------------------------------------------------------------------------
(* A GROUP BY statement against the same statement without GROUP BY.       *)

\* Both dimensions of the document are numbers written without fraction.
IntegerTuple(d) ==
    \A j \in 1..2 : TupleOf(d)[j].j = "Number" /\ TupleOf(d)[j].frac = 0

\* The key FlatStatByGroup files the document d under.
PartitionKey(d) ==
    String(BinaryExpr("AND", DimRoot(sql.Dimensions, 1, d, EmptyRoot, heap).e,
                      sql.Condition))

\* What EvalSQL returns for max(x), min(x), count(x), sum(x), avg(x) WHERE
\* uid = 1 without GROUP BY on the documents ds.
Ungrouped(ds) == FreshEmit(StmtAgg, SelectSeq(ds, PassesUid1))

\* C27: for the GROUP BY statement with WHERE uid = 1 and the fields max,
\* min, count, sum and avg, the points returned under each partition key
\* equal the points the statement without GROUP BY returns for the documents
\* of the batch that carry the partition's dimension tuple.
C27_GroupedEqualsUngrouped ==
    (/\ pc = "done"
     /\ sql = StmtGroupWhere
     /\ \A i \in 1..Len(docs) : IntegerTuple(docs[i]))
    => \A i \in 1..Len(docs) :
          /\ PartitionKey(docs[i]) \in DOMAIN pm
          /\ pm[PartitionKey(docs[i])] = Ungrouped(HasTuple(TupleOf(docs[i])))

\* What the driver returns: count, sum and avg agree with the statement
\* without GROUP BY; max and min are taken over the values and 0.0, because
\* the Calls of a partition start with First = false and result = 0.0.
GroupedExtremaIncludeZero ==
    (/\ pc = "done"
     /\ sql = StmtGroupWhere
     /\ \A i \in 1..Len(docs) : IntegerTuple(docs[i]))
    => \A i \in 1..Len(docs) :
          LET got == pm[PartitionKey(docs[i])]
              exp == Ungrouped(HasTuple(TupleOf(docs[i])))
          IN /\ \A f \in 3..5 : got[f] = exp[f]
             /\ got[1] = IF FLt(exp[1], FloatV(0)) THEN FloatV(0) ELSE exp[1]
             /\ got[2] = IF FLt(FloatV(0), exp[2]) THEN FloatV(0) ELSE exp[2]

-----------------------------------------------------------------------------
(* Every matching document is counted in one partition.                    *)

\* Both dimensions of the document are a string, a number or a boolean.
ValueTuple(d) ==
    \A j \in 1..2 : TupleOf(d)[j].j \in {"Number", "String", "Boolean"}

\* The sum of the points of count(x), the third field, over the keys.
RECURSIVE CountSum(_)
CountSum(keys) ==
    IF keys = {} THEN FloatV(0)
    ELSE LET k == CHOOSE x \in keys : TRUE
         IN FAdd(pm[k][3], CountSum(keys \ {k}))

\* C28: with GROUP BY, when every document carries a string, numeric or
\* boolean value for every dimension, the counts of all partitions add up to
\* the number of documents that pass WHERE, also when two numeric dimension
\* values differ only beyond the third decimal place.
C28_CountsAddUp ==
    (/\ pc = "done"
     /\ sql = StmtGroupWhere
     /\ \A i \in 1..Len(docs) : ValueTuple(docs[i]))
    => CountSum(DOMAIN pm) = FloatV(Len(Matched))

\* What the driver returns: the counts add up when the dimension values are
\* written without fraction.
CountsAddUpForIntegers ==
    (/\ pc = "done"
     /\ sql = StmtGroupWhere
     /\ \A i \in 1..Len(docs) : IntegerTuple(docs[i]))
    => CountSum(DOMAIN pm) = FloatV(Len(Matched))

-----------------------------------------------------------------------------
(* Clone and FlatStatByGroup on every accepted statement.                  *)

\* Every document of the batch carries a value for every dimension.
AllCarryDimensions == \A i \in 1..Len(docs) : ~LacksDimension(docs[i])

\* C29: Clone and FlatStatByGroup complete without raising for every
\* statement the parser accepts, whatever its WHERE predicate contains,
\* also an IN or NI list literal.
C29_CloneCompletes ==
    (pc # "parsed" /\ ParseError(sql) = "" /\ AllCarryDimensions)
    => pc # "panic"

\* What FlatStatByGroup does on a batch whose documents carry every
\* dimension: it raises "unreachable" from CloneExpr exactly when the WHERE
\* predicate holds a list literal.
CloneRaisesOnList ==
    (pc # "parsed" /\ AllCarryDimensions)
    => IF sql = StmtGroupIn
       THEN pc = "panic" /\ hist.panic = "unreachable"
       ELSE pc # "panic"

-----------------------------------------------------------------------------
(* A statement without WHERE and without GROUP BY.                         *)

\* C30: for SELECT avg(x) FROM p, a valid statement without WHERE and
\* without GROUP BY, EvalSQL completes and returns a single entry in which
\* every document of the batch has been accumulated: the point is the mean of
\* x over the whole batch.
C30_NoWhereAccumulatesAll ==
    (sql = StmtNoWhere /\ ParseError(sql) = "")
    => /\ pc # "panic"
       /\ (pc = "done" /\ docs # <<>> /\ \A i \in 1..Len(docs) : NumericX(docs[i]))
          => /\ Cardinality(DOMAIN pm) = 1
             /\ \A k \in DOMAIN pm :
                   pm[k] = <<FDiv(SumX(docs), FloatV(Len(docs)))>>

\* What the driver does: it raises at selectStmt.Condition.String(), before
\* it looks at any document, and returns nothing.
NoWhereRaises ==
    (sql = StmtNoWhere /\ pc \notin {"start", "parsed"})
    => pc = "panic" /\ hist.panic = "nil pointer dereference" /\ pm = EmptyMap

====
